---- MODULE Spec2Model ----
(***************************************************************************)
(* A model of the protocol chain of aleph (src/aleph/agent-chain.py):      *)
(* AgentChain.run_chain / run_chain_async iterate a list of Protocol       *)
(* objects, build one prompt per included protocol from the instruction    *)
(* text, the reservoir files, the user input and the working-memory file   *)
(* (instance.md), call the model and append the answer to instance.md.     *)
(*                                                                         *)
(* Text is a sequence of tokens.  A newline is the token NL and a blank is *)
(* the token " ", so that f-string concatenation is \o and str.strip() is  *)
(* Strip; every other token (a name, a label, a body of text) is opaque    *)
(* and holds no newline, no leading and no trailing blank.                 *)
(*                                                                         *)
(* Further specifications follow the callers and the helpers of the chain  *)
(* (main, ui.py, utils.py, protocol.py) and the registry prototype of      *)
(* src/aleph/reservoir (ProtocolRegistry, MemoryManager, ExecutionEngine). *)
(***************************************************************************)
EXTENDS Integers, Sequences, FiniteSets, TLC

VARIABLES
    protocols,        \* the List[Protocol] handed to run_chain
    mode,             \* "none" | "sync" (run_chain) | "async" (run_chain_async)
    pc,               \* position of the chain runner
    i,                \* index of the protocol the for-loop is at
    user_input,       \* the user_input argument of the running chain
    instance,         \* content of self.instance_file (the working memory)
    results,          \* the dict `results` of run_chain, in insertion order
    commentary_text,  \* local of run_protocol
    full_prompt,      \* local of run_protocol
    original_generate_prompt,  \* local of run_protocol
    generate_prompt,  \* self.system_prompt_generator.generate_prompt
    calls,            \* log: the model invocations of this chain, in order
    warnings,         \* log: logging.warning calls of the access loop
    steps,            \* log: per protocol, the step's state and what it saw
    runs,             \* how often run_chain / run_chain_async was entered
    sections_before,  \* log: the sections instance.md had when the chain
                      \* was entered, before its reset
    start_file,       \* log: content of instance.md when main began
    input_edit,       \* log: what click.edit gave obtain_user_input
    files,            \* the files of patterns/ and reservoir/
    loads,            \* log: the calls of load_markdown and what they gave
    construction,     \* log: the calls of Protocol(...) and what they gave
    tasks,            \* the chains that run concurrently on one agent
    writes,           \* log: the writes of concurrent chains to instance.md
    previous,         \* log: results and steps of the chain run before
    obtained,         \* log: the calls of obtain_user_input on a kept file
    protocol_registry,\* ProtocolRegistry.protocols of the registry prototype
    nodes,            \* MemoryManager.nodes of the registry prototype
    executed,         \* log: the calls of ExecutionEngine.execute_protocol
    instance_file,    \* the name of the file the agent was constructed with
    assembled         \* log: the access contexts assembled for comparison

vars == <<protocols, mode, pc, i, user_input, instance, results,
          commentary_text, full_prompt, original_generate_prompt,
          generate_prompt,
          calls, warnings, steps,
          runs, sections_before, start_file, input_edit,
          files, loads, construction, tasks, writes, previous, obtained,
          protocol_registry, nodes, executed, instance_file, assembled>>

----------------------------------------------------------------------------
(* Bounds *)

MaxProtocols == 3

\* the longest list of protocols of a chain that is checked for completion
MaxFairProtocols == 2

\* the longest list of protocols of an agent whose chain is run twice
MaxRerunProtocols == 2

\* the longest list of protocols main hands to run_chain
MaxMainProtocols == 2

\* the most calls of load_markdown in a row
MaxLoads == 2

\* the Protocol(...) calls of a program
MaxBuildProtocols == 2

\* the most sections appended to a store that is read back
MaxStoreSections == 1

\* the most calls of obtain_user_input on a store
MaxObtains == 2

\* the longest list whose model answers may look like other outcomes
MaxOutcomeProtocols == 2

\* the longest list that is run twice
MaxTwiceProtocols == 1

\* the longest list two concurrent chains run
MaxConcurrentProtocols == 1

\* the calls of execute_protocol that are followed
MaxExecutions == 2

\* the longest list of an agent that is constructed with a file of its own
MaxSentinelProtocols == 2

\* the access contexts that are assembled on one file system
MaxAssemblies == 2

----------------------------------------------------------------------------
(* Text *)

NL == "\n"

Whitespace == {" ", NL}

RECURSIVE LStrip(_)
LStrip(s) ==
    IF s = <<>> THEN s
    ELSE IF Head(s) \in Whitespace THEN LStrip(Tail(s)) ELSE s

RECURSIVE RStrip(_)
RStrip(s) ==
    IF s = <<>> THEN s
    ELSE IF s[Len(s)] \in Whitespace THEN RStrip(SubSeq(s, 1, Len(s) - 1)) ELSE s

\* str.strip()
Strip(s) == RStrip(LStrip(s))

\* str.lower(), token by token
LowerToken(t) ==
    CASE t = "Instance.MD" -> "instance.md"
      [] t = "INSTANCE.MD" -> "instance.md"
      [] t = "File.md" -> "file.md"
      [] OTHER -> t

Lower(s) == [k \in 1..Len(s) |-> LowerToken(s[k])]

\* sep.join(parts)
RECURSIVE Join(_, _)
Join(sep, parts) ==
    IF parts = <<>> THEN <<>>
    ELSE IF Len(parts) = 1 THEN parts[1]
    ELSE parts[1] \o sep \o Join(sep, Tail(parts))

----------------------------------------------------------------------------
(* Files: the patterns/ and reservoir/ directories.  A path is a directory *)
(* and a file name; a file name is a text, as the code strips and          *)
(* lower-cases it.                                                         *)

PATTERNS_DIR == "patterns"

RESERVOIR_DIR == "reservoir"

\* reservoir_dir / filename
PathJoin(dir, filename) == [dir |-> dir, name |-> filename]

FileText(path) ==
    CASE path = PathJoin(PATTERNS_DIR, <<"A.md">>) -> <<"instructions A", NL>>
      [] path = PathJoin(PATTERNS_DIR, <<"B.md">>) -> <<NL, "instructions B">>
      [] path = PathJoin(PATTERNS_DIR, <<"C.md">>) -> <<"instructions C">>
      [] path = PathJoin(PATTERNS_DIR, <<"D.md">>) -> <<"instructions D", " ">>
      [] path = PathJoin(RESERVOIR_DIR, <<"file.md">>) -> <<NL, "guidance", " ", NL>>
      [] path = PathJoin(RESERVOIR_DIR, <<"instance.md">>) -> <<"reservoir instance">>
      [] path = PathJoin(RESERVOIR_DIR, <<"memory.md">>) -> <<"reservoir memory", NL>>
      [] OTHER -> <<"<no such file>">>

PathExists(path) == FileText(path) # <<"<no such file>">>

\* the paths the programs name
Paths ==
    { PathJoin(PATTERNS_DIR, <<name>>) : name \in {"A.md", "B.md", "C.md", "D.md", "Z.md"} }
    \cup { PathJoin(RESERVOIR_DIR, <<name>>) :
              name \in {"file.md", "missing.md", "instance.md", "memory.md"} }

\* the file system of a chain run: a text for every path, the text of a
\* missing file being "<no such file>"
Files == [path \in Paths |-> FileText(path)]

\* path.exists() in a file system
PathExistsIn(fs, path) == path \in DOMAIN fs /\ fs[path] # <<"<no such file>">>

\* a loader that returns the text as it is in the file
LoadMarkdownUnstripped(fs, path) ==
    IF ~PathExistsIn(fs, path)
    THEN [raised |-> TRUE, value |-> <<"Markdown file not found: ">> \o path.name]
    ELSE [raised |-> FALSE, value |-> fs[path]]

\* load_markdown in a file system: raises FileNotFoundError on a missing
\* path, otherwise the stripped text
LoadMarkdownIn(fs, path) ==
    IF ~PathExistsIn(fs, path)
    THEN [raised |-> TRUE, value |-> <<"Markdown file not found: ">> \o path.name]
    ELSE [raised |-> FALSE, value |-> Strip(fs[path])]

\* load_markdown in the file system of a chain run
LoadMarkdown(path) == LoadMarkdownIn(Files, path)

----------------------------------------------------------------------------
(* Protocol *)

\* Protocol.__init__ (for a prompt file that exists)
NewProtocol(name, prompt_file, include_in_chain, accesses, requires_commentary) ==
    [name |-> name,
     prompt |-> LoadMarkdown(prompt_file).value,
     accesses |-> accesses,
     include_in_chain |-> include_in_chain,
     requires_commentary |-> requires_commentary]

Binding(label, filename) == [label |-> label, filename |-> filename]

\* The protocols a chain is built from: the scenario of the specification
\* (A reads a reservoir, B is excluded), a protocol with commentary whose
\* accesses interleave working memory, a missing and a present reservoir, and
\* a protocol whose only reservoir is missing and whose name is B as well.
ProtocolCatalogue ==
    { NewProtocol("A", PathJoin(PATTERNS_DIR, <<"A.md">>), TRUE,
                  <<Binding("R", <<"file.md">>)>>, FALSE),
      NewProtocol("B", PathJoin(PATTERNS_DIR, <<"B.md">>), FALSE,
                  <<Binding("R", <<"file.md">>)>>, FALSE),
      NewProtocol("C", PathJoin(PATTERNS_DIR, <<"C.md">>), TRUE,
                  <<Binding("W", <<" ", "Instance.MD">>),
                    Binding("M", <<"missing.md">>),
                    Binding("R", <<"file.md">>),
                    Binding("W2", <<"instance.md">>)>>, TRUE),
      NewProtocol("B", PathJoin(PATTERNS_DIR, <<"D.md">>), TRUE,
                  <<Binding("M", <<"missing.md">>)>>, FALSE) }

ProtocolLists ==
    UNION { [1..n -> ProtocolCatalogue] : n \in 0..MaxProtocols }

----------------------------------------------------------------------------
(* The collaborators' answers *)

UserInputs == { <<"hello">> }

\* the user input of a second chain run
LaterInputs == { <<"again">> }

\* what the model returns (chat_message), before .strip()
ModelResponses == { <<" ", "out1", NL>>, <<"out2">> }

\* str(err) of what the model call raises
ModelErrors == { <<"api error">> }

\* str(err) of what click.edit raises
EditorErrors == { <<"editor failed">> }

\* str(err) of what reading the instance file raises
ReadErrors == { <<"read failed">> }

NoEdit == [saved |-> FALSE, text |-> <<>>]

\* click.edit("# input text:\n\n") of obtain_user_input: closed without
\* saving, saved as it was, saved with a line of text
InputEditorAnswers ==
    { NoEdit,
      [saved |-> TRUE, text |-> <<"# input text:", NL, NL>>],
      [saved |-> TRUE, text |-> <<"# input text:", NL, NL, "typed", " ", NL>>] }

\* click.edit has not been called
NotAsked == [saved |-> FALSE, text |-> <<"<editor not opened>">>]

\* click.edit(initial_content): None when the editor is closed without
\* saving, otherwise the edited text
EditorAnswers ==
    { NoEdit,
      [saved |-> TRUE, text |-> <<"# Commentary for protocol", NL, NL>>],
      [saved |-> TRUE,
       text |-> <<"# Commentary for protocol", NL, NL, "note", " ", NL>>] }

----------------------------------------------------------------------------
(* Places in a text *)

\* the first place of a token in a text from place k on, 0 when it is not
\* there
IndexFrom(s, token, k) ==
    LET places == {j \in k..Len(s) : s[j] = token}
    IN  IF places = {} THEN 0
        ELSE CHOOSE j \in places : \A other \in places : j <= other

\* the first place of a token in a text, 0 when it is not there
IndexOf(s, token) == IndexFrom(s, token, 1)

\* how often a token stands in a text
Count(s, token) == Cardinality({k \in 1..Len(s) : s[k] = token})

----------------------------------------------------------------------------
(* ui.py *)

\* str.splitlines()
RECURSIVE SplitLines(_, _)
SplitLines(s, cur) ==
    IF s = <<>> THEN (IF cur = <<>> THEN <<>> ELSE <<cur>>)
    ELSE IF Head(s) = NL THEN <<cur>> \o SplitLines(Tail(s), <<>>)
    ELSE SplitLines(Tail(s), Append(cur, Head(s)))

CommentTokens == { "# Commentary for protocol", "# input text:" }

\* line.strip().startswith("#")
IsCommentLine(line) ==
    LET t == Strip(line) IN t # <<>> /\ Head(t) \in CommentTokens

RECURSIVE DropCommentLines(_)
DropCommentLines(lines) ==
    IF lines = <<>> THEN <<>>
    ELSE IF IsCommentLine(Head(lines)) THEN DropCommentLines(Tail(lines))
    ELSE <<Head(lines)>> \o DropCommentLines(Tail(lines))

\* obtain_commentary: the text after click.edit returned `edited`
ObtainCommentary(edited) ==
    IF ~edited.saved THEN <<>>
    ELSE Strip(Join(<<NL>>, DropCommentLines(SplitLines(edited.text, <<>>))))

\* the text of `(.*?)` before `\s*(?:\n---|\Z)`: up to the first line that
\* begins with a rule, or to the end
RECURSIVE UntilRule(_)
UntilRule(s) ==
    IF s = <<>> THEN <<>>
    ELSE IF Head(s) = NL /\ Len(s) >= 2 /\ s[2] = "---" THEN <<>>
    ELSE <<Head(s)>> \o UntilRule(Tail(s))

\* a search that takes everything under "[User Input]:" to the end of the file
StoredUserInputToEnd(content) ==
    LET at == IndexOf(content, "[User Input]:")
    IN  IF at = 0 THEN <<>>
        ELSE Strip(SubSeq(content, at + 1, Len(content)))

\* obtain_user_input: the user input the instance file holds, "" when it has
\* no "[User Input]:" or nothing under it
StoredUserInput(content) ==
    LET at == IndexOf(content, "[User Input]:")
    IN  IF at = 0 THEN <<>>
        ELSE Strip(UntilRule(SubSeq(content, at + 1, Len(content))))

\* an editor whose closing without saving counts as an empty text
EditorNeverAborted(edited) == FALSE

\* `if edited_text is None`
EditorAborted(edited) == ~edited.saved

\* obtain_user_input: the edited text without its comment lines, stripped
FilteredInput(text) ==
    Strip(Join(<<NL>>, DropCommentLines(SplitLines(text, <<>>))))

\* new_section of obtain_user_input
NewSection(u) == <<"[User Input]:", NL>> \o u \o <<NL, NL, "---", NL>>

\* obtain_user_input: the content written back to the instance file
WriteUserInput(content, u) ==
    IF content # <<>>
    THEN IF Count(content, "[User Input]:") > 0
         THEN Strip(SubSeq(content, 1, IndexOf(content, "[User Input]:") - 1))
                 \o <<NL, NL>> \o NewSection(u)
         ELSE content \o <<NL, NL>> \o NewSection(u)
    ELSE <<"# Internal Reservoir Instance", NL, NL>> \o NewSection(u)

----------------------------------------------------------------------------
(* AgentChain: the working-memory file *)

Header == <<"# Internal Reservoir Instance", NL, NL>>

\* a reset that keeps what the file holds and adds the user input to it
ResetContentKeepingFile(u) == instance \o <<"[User Input]:", NL>> \o u \o <<NL>>

\* what run_chain writes at its start
ResetContent(u) == Header \o <<"[User Input]:", NL>> \o u \o <<NL>>

\* _read_instance: the file exists from __init__ on
ReadInstance(file) == file

\* a section written without its "---" rule
SectionWithoutRule(section_title, content) ==
    <<NL, NL, "### ">> \o section_title \o <<NL, NL>> \o content \o <<NL>>

\* the f-string of _append_to_instance
Section(section_title, content) ==
    <<NL, NL, "---", NL, "### ">> \o section_title \o <<NL, NL>> \o content \o <<NL>>

\* an append that writes the new section over the file
AppendToInstanceOverwriting(file, section_title, content) ==
    Section(section_title, content)

\* _append_to_instance: the new content of the file
AppendToInstance(file, section_title, content) ==
    ReadInstance(file) \o Section(section_title, content)

\* a section title that is the bare name of the protocol
OutputTitleWithoutSuffix(protocol) == <<protocol.name>>

\* f"{protocol.name} Output"
OutputTitle(protocol) == <<protocol.name, " Output">>

----------------------------------------------------------------------------
(* The dict `results`: a sequence of items in insertion order *)

DictKeys(d) == [k \in 1..Len(d) |-> d[k].key]

DictHas(d, key) == \E k \in 1..Len(d) : d[k].key = key

DictGet(d, key) == d[CHOOSE k \in 1..Len(d) : d[k].key = key].value

\* a mapping that keeps the value a key was given first
DictSetKeepingFirst(d, key, value) ==
    IF DictHas(d, key) THEN d
    ELSE Append(d, [key |-> key, value |-> value])

\* d[key] = value: a new key goes last, a known key keeps its place
DictSet(d, key, value) ==
    IF DictHas(d, key)
    THEN [k \in 1..Len(d) |->
            IF d[k].key = key THEN [key |-> key, value |-> value] ELSE d[k]]
    ELSE Append(d, [key |-> key, value |-> value])

----------------------------------------------------------------------------
(* run_protocol: the access context and the prompt *)

\* a test that takes the name of the agent's own file for the sentinel
IsWorkingMemoryConfigured(filename) == Lower(Strip(filename)) = Lower(instance_file)

\* filename.strip().lower() == "instance.md"
IsWorkingMemory(filename) == Lower(Strip(filename)) = <<"instance.md">>

\* an access loop that puts the working-memory parts before the reservoirs
RECURSIVE AccessPartsMemoryFirst(_, _)
AccessPartsMemoryFirst(accesses, file) ==
    IF accesses = <<>> THEN <<>>
    ELSE LET b == Head(accesses)
             rest == AccessPartsMemoryFirst(Tail(accesses), file)
             loaded == LoadMarkdown(PathJoin(RESERVOIR_DIR, b.filename))
         IN  IF IsWorkingMemory(b.filename)
             THEN << <<"### ", b.label, " (Working Memory):", NL>>
                       \o ReadInstance(file) >> \o rest
             ELSE IF loaded.raised THEN rest
             ELSE rest \o << <<"### ", b.label, ":", NL>> \o loaded.value >>

\* an access loop that ends at the first reservoir it cannot load
RECURSIVE AccessPartsEndingAtFailure(_, _)
AccessPartsEndingAtFailure(accesses, file) ==
    IF accesses = <<>> THEN <<>>
    ELSE LET b == Head(accesses)
             rest == AccessPartsEndingAtFailure(Tail(accesses), file)
             loaded == LoadMarkdown(PathJoin(RESERVOIR_DIR, b.filename))
         IN  IF IsWorkingMemory(b.filename)
             THEN << <<"### ", b.label, " (Working Memory):", NL>>
                       \o ReadInstance(file) >> \o rest
             ELSE IF loaded.raised THEN <<>>
             ELSE << <<"### ", b.label, ":", NL>> \o loaded.value >> \o rest

\* the parts the access loop collects in a file system, in the order of
\* protocol.accesses
RECURSIVE AccessPartsIn(_, _, _)
AccessPartsIn(fs, accesses, file) ==
    IF accesses = <<>> THEN <<>>
    ELSE LET b == Head(accesses)
             rest == AccessPartsIn(fs, Tail(accesses), file)
             loaded == LoadMarkdownIn(fs, PathJoin(RESERVOIR_DIR, b.filename))
         IN  IF IsWorkingMemory(b.filename)
             THEN << <<"### ", b.label, " (Working Memory):", NL>>
                       \o ReadInstance(file) >> \o rest
             ELSE IF loaded.raised THEN rest
             ELSE << <<"### ", b.label, ":", NL>> \o loaded.value >> \o rest

\* the parts the access loop collects in the file system of a chain run
AccessParts(accesses, file) == AccessPartsIn(Files, accesses, file)

\* the logging.warning calls of the access loop
RECURSIVE AccessWarnings(_, _)
AccessWarnings(accesses, step) ==
    IF accesses = <<>> THEN <<>>
    ELSE LET b == Head(accesses)
             rest == AccessWarnings(Tail(accesses), step)
             loaded == LoadMarkdown(PathJoin(RESERVOIR_DIR, b.filename))
         IN  IF ~IsWorkingMemory(b.filename) /\ loaded.raised
             THEN << [step |-> step, label |-> b.label, filename |-> b.filename,
                      error |-> loaded.value] >> \o rest
             ELSE rest

AccessContext(protocol, file) ==
    Join(<<NL, NL>>, AccessParts(protocol.accesses, file))

\* a section whose head is written whether or not there is commentary
CommentarySectionAlways(protocol, commentary) ==
    <<NL, NL, "Commentary for ", protocol.name, ":", NL>> \o commentary

CommentarySection(protocol, commentary) ==
    IF commentary # <<>>
    THEN <<NL, NL, "Commentary for ", protocol.name, ":", NL>> \o commentary
    ELSE <<>>

\* the content of instance.md as it was when the chain began
InstanceContentAtReset(file) == ResetContent(user_input)

\* instance_content = self._read_instance(), at the head of the assembly
InstanceContent(file) == ReadInstance(file)

\* a prompt with the commentary after the user input
FullPromptCommentaryLast(protocol, access_context, commentary, u, instance_content) ==
    <<"Protocol: ", protocol.name, NL>>
    \o <<"Instructions:", NL>> \o protocol.prompt \o <<NL, NL>>
    \o <<"Access Contexts:", NL>> \o access_context \o <<NL>>
    \o <<NL, NL>>
    \o <<"User Input:", NL>> \o u \o <<NL, NL>>
    \o CommentarySection(protocol, commentary)
    \o <<"Current Instance Context:", NL>> \o instance_content \o <<NL>>

\* full_prompt of run_protocol
FullPrompt(protocol, access_context, commentary, u, instance_content) ==
    <<"Protocol: ", protocol.name, NL>>
    \o <<"Instructions:", NL>> \o protocol.prompt \o <<NL, NL>>
    \o <<"Access Contexts:", NL>> \o access_context \o <<NL>>
    \o CommentarySection(protocol, commentary) \o <<NL, NL>>
    \o <<"User Input:", NL>> \o u \o <<NL, NL>>
    \o <<"Current Instance Context:", NL>> \o instance_content \o <<NL>>

\* full_prompt of run_protocol_async
FullPromptAsync(protocol, access_context, u, instance_content) ==
    <<"Protocol: ", protocol.name, NL>>
    \o <<"Instructions:", NL>> \o protocol.prompt \o <<NL, NL>>
    \o <<"Access Contexts:", NL>> \o access_context \o <<NL, NL>>
    \o <<"User Input:", NL>> \o u \o <<NL, NL>>
    \o <<"Current Instance Context:", NL>> \o instance_content \o <<NL>>

OriginalGenerator == <<"<original generate_prompt>">>

\* a marker that drops the message of the exception
ErrorMarkerWithoutMessage(err) == <<"Error: ">>

\* a marker that is the message alone
ErrorMarkerBare(err) == err

\* f"Error: {err}"
ErrorMarker(err) == <<"Error: ">> \o err

----------------------------------------------------------------------------
(* The state after AgentChain.__init__ *)

\* what the steps of a chain leave alone
Caller == <<runs, sections_before, start_file, input_edit>>

\* the variables of the registry prototype
Prototype == <<protocol_registry, nodes, executed>>

\* what a program that runs one chain at a time on an agent that is built
\* leaves alone
Elsewhere == <<files, loads, construction, tasks, writes, previous, obtained,
               Prototype, instance_file, assembled, assembled>>

NoPrevious == [results |-> <<>>, steps |-> <<>>]

InitElsewhere ==
    /\ files = Files
    /\ loads = <<>>
    /\ construction = <<>>
    /\ tasks = <<>>
    /\ writes = <<>>
    /\ previous = NoPrevious
    /\ obtained = <<>>
    /\ protocol_registry = <<>>
    /\ nodes = <<>>
    /\ executed = <<>>
    /\ instance_file = <<"instance.md">>
    /\ assembled = <<>>

NoStep == [state |-> "Pending", wm_before |-> <<>>, wm_after |-> <<>>,
           commentary |-> <<>>, response |-> <<>>, output |-> <<>>,
           error |-> <<>>, failed_in |-> "none"]

Init ==
    /\ protocols \in ProtocolLists
    /\ mode = "none"
    /\ pc = "idle"
    /\ i = 1
    /\ user_input = <<>>
    /\ instance = Header
    /\ results = <<>>
    /\ commentary_text = <<>>
    /\ full_prompt = <<>>
    /\ original_generate_prompt = <<>>
    /\ generate_prompt = OriginalGenerator
    /\ calls = <<>>
    /\ warnings = <<>>
    /\ steps = [k \in 1..Len(protocols) |-> NoStep]
    /\ runs = 0
    /\ sections_before = 0
    /\ start_file = <<>>
    /\ input_edit = NotAsked
    /\ InitElsewhere

protocol == protocols[i]

\* a runner that does not look at the flag
IsIncludedAlways(p) == TRUE

\* `if not protocol.include_in_chain` of run_chain, run_protocol and
\* run_protocol_async
IsIncluded(p) == p.include_in_chain

\* a loop that takes up a protocol while a model call is still out
InLoopWithoutAwait == pc \in {"loop", "invoke"} /\ i <= Len(protocols)

\* the for-loop is at its head with a protocol left: the call of run_protocol
\* has returned or raised, the await of run_protocol_async is over
InLoop == pc = "loop" /\ i <= Len(protocols)

Locals == <<commentary_text, full_prompt, original_generate_prompt>>

ClearLocals ==
    /\ commentary_text' = <<>>
    /\ full_prompt' = <<>>
    /\ original_generate_prompt' = <<>>

----------------------------------------------------------------------------
(* run_chain and run_chain_async *)

\* the logs of a chain begin when run_chain or run_chain_async is entered
EnterChain ==
    /\ runs' = runs + 1
    /\ sections_before' = Count(instance, "---")
    /\ calls' = <<>>
    /\ warnings' = <<>>
    /\ steps' = [k \in 1..Len(protocols) |-> NoStep]

\* the head of run_chain: instance.md is rewritten, results = {}
RunChain(u) ==
    /\ pc = "idle"
    /\ mode' = "sync"
    /\ user_input' = u
    /\ instance' = ResetContent(u)
    /\ results' = <<>>
    /\ i' = 1
    /\ pc' = "loop"
    /\ EnterChain
    /\ UNCHANGED <<Elsewhere, protocols, Locals, generate_prompt, start_file,
                   input_edit>>

\* the head of run_chain_async
RunChainAsync(u) ==
    /\ pc = "idle"
    /\ mode' = "async"
    /\ user_input' = u
    /\ instance' = ResetContent(u)
    /\ results' = <<>>
    /\ i' = 1
    /\ pc' = "loop"
    /\ EnterChain
    /\ UNCHANGED <<Elsewhere, protocols, Locals, generate_prompt, start_file,
                   input_edit>>

\* a loop that a failed step ends: the chain returns what it has
AfterExceptReturn == "done"

\* a loop without the except clause: the exception leaves the chain runner
AfterExceptRaise == "raised"

\* where the for-loop goes after the except clause has recorded the error
AfterExcept == "loop"

\* `except Exception as err`: the marker is recorded and the loop goes on
Except(err, where) ==
    /\ results' = DictSet(results, protocol.name, ErrorMarker(err))
    /\ i' = i + 1
    /\ pc' = AfterExcept
    /\ steps' = [steps EXCEPT ![i] = [@ EXCEPT !.state = "Failed",
                                               !.wm_after = instance',
                                               !.error = err,
                                               !.failed_in = where]]
    /\ ClearLocals

\* a loop that goes on to the next protocol without recording the skipped one
SkippedResultsNotRecorded(d, name) == d

\* results[protocol.name] = "" of a skipped protocol
SkippedResults(d, name) == DictSet(d, name, <<>>)

\* run_chain, `if not protocol.include_in_chain`: "" is recorded, continue
SkipProtocol ==
    /\ InLoop /\ mode = "sync"
    /\ ~IsIncluded(protocol)
    /\ results' = SkippedResults(results, protocol.name)
    /\ i' = i + 1
    /\ steps' = [steps EXCEPT ![i] = [@ EXCEPT !.state = "Skipped",
                                               !.wm_before = instance,
                                               !.wm_after = instance]]
    /\ UNCHANGED <<Elsewhere, Caller, protocols, mode, pc, user_input, instance, Locals,
                   generate_prompt, calls, warnings>>

\* run_chain_async: run_protocol_async returns "" for an excluded protocol
\* and the loop records it as the output
SkipProtocolAsync ==
    /\ InLoop /\ mode = "async"
    /\ ~IsIncluded(protocol)
    /\ results' = SkippedResults(results, protocol.name)
    /\ i' = i + 1
    /\ steps' = [steps EXCEPT ![i] = [@ EXCEPT !.state = "Skipped",
                                               !.wm_before = instance,
                                               !.wm_after = instance]]
    /\ UNCHANGED <<Elsewhere, Caller, protocols, mode, pc, user_input, instance, Locals,
                   generate_prompt, calls, warnings>>

\* run_protocol with requires_commentary false, and run_protocol_async (which
\* never asks for commentary): commentary_text stays ""
StartProtocol ==
    /\ InLoop
    /\ IsIncluded(protocol)
    /\ mode = "async" \/ ~protocol.requires_commentary
    /\ commentary_text' = <<>>
    /\ pc' = "assemble"
    /\ steps' = [steps EXCEPT ![i] = [@ EXCEPT !.state = "PromptAssembly",
                                               !.wm_before = instance]]
    /\ UNCHANGED <<Elsewhere, Caller, protocols, mode, i, user_input, instance, results,
                   full_prompt, original_generate_prompt, generate_prompt,
                   calls, warnings>>

\* run_protocol with requires_commentary true: obtain_commentary opens the
\* editor
RequestCommentary ==
    /\ InLoop /\ mode = "sync"
    /\ IsIncluded(protocol)
    /\ protocol.requires_commentary
    /\ pc' = "commentary"
    /\ steps' = [steps EXCEPT ![i] = [@ EXCEPT !.state = "CommentaryCollection",
                                               !.wm_before = instance]]
    /\ UNCHANGED <<Elsewhere, Caller, protocols, mode, i, user_input, instance, results, Locals,
                   generate_prompt, calls, warnings>>

\* the editor returns: commentary_text = obtain_commentary(protocol.name)
CommentaryReturns(edited) ==
    /\ pc = "commentary"
    /\ commentary_text' = ObtainCommentary(edited)
    /\ pc' = "assemble"
    /\ steps' = [steps EXCEPT ![i] = [@ EXCEPT !.state = "PromptAssembly",
                                               !.commentary = ObtainCommentary(edited)]]
    /\ UNCHANGED <<Elsewhere, Caller, protocols, mode, i, user_input, instance, results,
                   full_prompt, original_generate_prompt, generate_prompt,
                   calls, warnings>>

\* click.edit raises
CommentaryRaises(err) ==
    /\ pc = "commentary"
    /\ UNCHANGED <<Elsewhere, Caller, protocols, mode, user_input, instance, generate_prompt,
                   calls, warnings>>
    /\ Except(err, "commentary")

\* run_protocol from `instance_content = self._read_instance()` to the call
\* of self.run: the prompt is built, the generator is overridden and the
\* model is called with the prompt
AssemblePrompt ==
    /\ pc = "assemble"
    /\ LET instance_content == InstanceContent(instance)
           access_context == AccessContext(protocol, instance)
           prompt == IF mode = "sync"
                     THEN FullPrompt(protocol, access_context, commentary_text,
                                     user_input, instance_content)
                     ELSE FullPromptAsync(protocol, access_context,
                                          user_input, instance_content)
       IN  /\ full_prompt' = prompt
           /\ original_generate_prompt' = generate_prompt
           /\ generate_prompt' = full_prompt'
           /\ calls' = Append(calls, [step |-> i, chat_message |-> full_prompt',
                                      system |-> full_prompt'])
    /\ warnings' = warnings \o AccessWarnings(protocol.accesses, i)
    /\ pc' = "invoke"
    /\ steps' = [steps EXCEPT ![i] = [@ EXCEPT !.state = "ModelInvocation"]]
    /\ UNCHANGED <<Elsewhere, Caller, protocols, mode, i, user_input, instance, results,
                   commentary_text>>

\* reading instance.md raises while the prompt is built
AssembleRaises(err) ==
    /\ pc = "assemble"
    /\ UNCHANGED <<Elsewhere, Caller, protocols, mode, user_input, instance, generate_prompt,
                   calls, warnings>>
    /\ Except(err, "assembly")

\* a step that marks its protocol as run, so that a later chain leaves it out
ModelReturnsOnce(response) ==
    /\ pc = "invoke"
    /\ LET result_text == Strip(response)
       IN  /\ instance' = AppendToInstance(instance, OutputTitle(protocol), result_text)
           /\ results' = DictSet(results, protocol.name, result_text)
           /\ steps' = [steps EXCEPT ![i] =
                           [@ EXCEPT !.state = "Appended",
                                     !.response = response,
                                     !.output = result_text,
                                     !.wm_after = instance']]
    /\ protocols' = [protocols EXCEPT ![i].include_in_chain = FALSE]
    /\ generate_prompt' = original_generate_prompt
    /\ i' = i + 1
    /\ pc' = "loop"
    /\ ClearLocals
    /\ UNCHANGED <<Elsewhere, Caller, mode, user_input, calls, warnings>>

\* the model answers (in run_protocol_async: the partial answers, added up):
\* result_text is the stripped answer, the generator saved before the call is
\* put back, the section
\* is appended, result_text is returned and results[protocol.name] = output
ModelReturns(response) ==
    /\ pc = "invoke"
    /\ LET result_text == Strip(response)
       IN  /\ instance' = AppendToInstance(instance, OutputTitle(protocol), result_text)
           /\ results' = DictSet(results, protocol.name, result_text)
           /\ steps' = [steps EXCEPT ![i] =
                           [@ EXCEPT !.state = "Appended",
                                     !.response = response,
                                     !.output = result_text,
                                     !.wm_after = instance']]
    /\ generate_prompt' = original_generate_prompt
    /\ i' = i + 1
    /\ pc' = "loop"
    /\ ClearLocals
    /\ UNCHANGED <<Elsewhere, Caller, protocols, mode, user_input, calls, warnings>>

\* a failed call that leaves a section of its own in instance.md
ModelRaisesAfterWriting(err) ==
    /\ pc = "invoke"
    /\ instance' = AppendToInstance(instance, OutputTitle(protocol), <<>>)
    /\ UNCHANGED <<Elsewhere, Caller, protocols, mode, user_input, generate_prompt,
                   calls, warnings>>
    /\ Except(err, "invocation")

\* a failed call that is tried once more before the error is recorded
ModelRaisesRetrying(err) ==
    /\ pc = "invoke"
    /\ calls' = Append(calls, calls[Len(calls)])
    /\ UNCHANGED <<Elsewhere, Caller, protocols, mode, user_input, instance, generate_prompt,
                   warnings>>
    /\ Except(err, "invocation")

\* the model call raises: nothing restores the generator
ModelRaises(err) ==
    /\ pc = "invoke"
    /\ UNCHANGED <<Elsewhere, Caller, protocols, mode, user_input, instance, generate_prompt,
                   calls, warnings>>
    /\ Except(err, "invocation")

\* return results
ReturnResults ==
    /\ pc = "loop" /\ i > Len(protocols)
    /\ pc' = "done"
    /\ UNCHANGED <<Elsewhere, Caller, protocols, mode, i, user_input, instance, results, Locals,
                   generate_prompt, calls, warnings, steps>>

Next ==
    \/ \E u \in UserInputs : RunChain(u)
    \/ \E u \in UserInputs : RunChainAsync(u)
    \/ SkipProtocol
    \/ SkipProtocolAsync
    \/ StartProtocol
    \/ RequestCommentary
    \/ \E edited \in EditorAnswers : CommentaryReturns(edited)
    \/ \E err \in EditorErrors : CommentaryRaises(err)
    \/ AssemblePrompt
    \/ \E err \in ReadErrors : AssembleRaises(err)
    \/ \E response \in ModelResponses : ModelReturns(response)
    \/ \E err \in ModelErrors : ModelRaises(err)
    \/ ReturnResults

Spec == Init /\ [][Next]_vars

\* the interpreter goes on with the statement in hand, and every call of a
\* collaborator (editor, file system, model) returns or raises
----------------------------------------------------------------------------
(* The same agent runs a second chain *)

\* run_chain has returned and the caller calls the agent again
CallAgain ==
    /\ pc = "done"
    /\ runs = 1
    /\ pc' = "idle"
    /\ UNCHANGED <<Elsewhere, Caller, protocols, mode, i, user_input, instance, results,
                   Locals, generate_prompt, calls, warnings, steps>>

InitRerun == Init /\ Len(protocols) <= MaxRerunProtocols

NextRerun ==
    \/ Next
    \/ CallAgain
    \/ \E u \in LaterInputs : runs = 1 /\ RunChain(u)
    \/ \E u \in LaterInputs : runs = 1 /\ RunChainAsync(u)

SpecRerun == InitRerun /\ [][NextRerun]_vars

----------------------------------------------------------------------------
(* The same list is run twice *)

\* run_chain has returned; the caller keeps what it gave and calls the agent
\* again with the same list
CallAgainRecording ==
    /\ pc = "done"
    /\ runs = 1
    /\ pc' = "idle"
    /\ previous' = [results |-> results, steps |-> steps]
    /\ UNCHANGED <<Caller, Prototype, instance_file, assembled,
                   files, loads, construction, tasks, writes,
                   obtained, protocols, mode,
                   i, user_input, instance, results, Locals, generate_prompt, calls,
                   warnings, steps>>

InitTwice == Init /\ Len(protocols) <= MaxTwiceProtocols

NextTwice ==
    \/ Next
    \/ CallAgainRecording

SpecTwice == InitTwice /\ [][NextTwice]_vars

----------------------------------------------------------------------------
(* The model answers with nothing, or with what looks like an error marker *)

\* answers of the model that are empty after .strip() or begin with "Error: "
AmbiguousResponses == { <<" ", NL>>, <<"Error: ", "api error">> }

InitOutcomes == Init /\ Len(protocols) <= MaxOutcomeProtocols

NextOutcomes ==
    \/ Next
    \/ \E response \in AmbiguousResponses : ModelReturns(response)

SpecOutcomes == InitOutcomes /\ [][NextOutcomes]_vars

----------------------------------------------------------------------------
(* The agent is constructed with an instance file of its own *)

\* instance_file of AgentChain.__init__: the default and another name
InstanceFiles == { <<"instance.md">>, <<"memory.md">> }

\* protocols whose bindings name the sentinel in several spellings, the
\* other instance file (as it is and with a blank before it) and a reservoir
SentinelCatalogue ==
    { NewProtocol("A", PathJoin(PATTERNS_DIR, <<"A.md">>), TRUE,
                  <<Binding("W", <<" ", "Instance.MD">>),
                    Binding("M", <<"memory.md">>),
                    Binding("I", <<"INSTANCE.MD", NL>>)>>, FALSE),
      NewProtocol("B", PathJoin(PATTERNS_DIR, <<"B.md">>), FALSE,
                  <<Binding("W", <<"instance.md">>)>>, FALSE),
      NewProtocol("C", PathJoin(PATTERNS_DIR, <<"C.md">>), TRUE,
                  <<Binding("P", <<" ", "memory.md">>),
                    Binding("R", <<"file.md">>),
                    Binding("W2", <<"instance.md">>)>>, TRUE) }

SentinelLists ==
    UNION { [1..n -> SentinelCatalogue] : n \in 0..MaxSentinelProtocols }

InitSentinel ==
    /\ protocols \in SentinelLists
    /\ instance_file \in InstanceFiles
    /\ assembled = <<>>
    /\ mode = "none"
    /\ pc = "idle"
    /\ i = 1
    /\ user_input = <<>>
    /\ instance = Header
    /\ results = <<>>
    /\ commentary_text = <<>>
    /\ full_prompt = <<>>
    /\ original_generate_prompt = <<>>
    /\ generate_prompt = OriginalGenerator
    /\ calls = <<>>
    /\ warnings = <<>>
    /\ steps = [k \in 1..Len(protocols) |-> NoStep]
    /\ runs = 0
    /\ sections_before = 0
    /\ start_file = <<>>
    /\ input_edit = NotAsked
    /\ files = Files
    /\ loads = <<>>
    /\ construction = <<>>
    /\ tasks = <<>>
    /\ writes = <<>>
    /\ previous = NoPrevious
    /\ obtained = <<>>
    /\ protocol_registry = <<>>
    /\ nodes = <<>>
    /\ executed = <<>>

SpecSentinel == InitSentinel /\ [][Next]_vars

----------------------------------------------------------------------------
(* load_markdown on files that come, change and go *)

\* the chain variables of a program that runs no chain
NoChain ==
    /\ protocols = <<>>
    /\ mode = "none"
    /\ i = 1
    /\ user_input = <<>>
    /\ instance = Header
    /\ results = <<>>
    /\ commentary_text = <<>>
    /\ full_prompt = <<>>
    /\ original_generate_prompt = <<>>
    /\ generate_prompt = OriginalGenerator
    /\ calls = <<>>
    /\ warnings = <<>>
    /\ steps = <<>>
    /\ runs = 0
    /\ sections_before = 0
    /\ start_file = <<>>
    /\ input_edit = NotAsked

Chain == <<protocols, mode, pc, i, user_input, instance, results, Locals,
           generate_prompt, calls, warnings, steps>>

\* the reservoir files that are loaded and what they may hold: no file, a
\* text with whitespace around it, whitespace alone
LoadPaths == { PathJoin(RESERVOIR_DIR, <<name>>) : name \in {"file.md", "missing.md"} }

LoadTexts == { <<"<no such file>">>, <<NL, "guidance", " ", NL>>, <<" ", NL>> }

InitLoad ==
    /\ NoChain
    /\ pc = "load"
    /\ files \in { [path \in Paths |->
                       IF path \in LoadPaths THEN held[path] ELSE Files[path]] :
                       held \in [LoadPaths -> LoadTexts] }
    /\ loads = <<>>
    /\ construction = <<>>
    /\ tasks = <<>>
    /\ writes = <<>>
    /\ previous = NoPrevious
    /\ obtained = <<>>
    /\ protocol_registry = <<>>
    /\ nodes = <<>>
    /\ executed = <<>>
    /\ instance_file = <<"instance.md">>
    /\ assembled = <<>>

\* load_markdown(path): the file is read, nothing is written
LoadFile(path) ==
    /\ Len(loads) < MaxLoads
    /\ files' = files
    /\ loads' = Append(loads, [path |-> path,
                               raised |-> LoadMarkdownIn(files, path).raised,
                               value |-> LoadMarkdownIn(files, path).value,
                               before |-> files,
                               after |-> files'])
    /\ UNCHANGED <<Chain, Caller, construction, tasks, writes, previous,
                   obtained, Prototype, instance_file, assembled, assembled>>

\* someone writes or removes a reservoir file
EditFile(path, text) ==
    /\ files[path] # text
    /\ files' = [files EXCEPT ![path] = text]
    /\ UNCHANGED <<Chain, Caller, loads, construction, tasks, writes, previous,
                   obtained, Prototype, instance_file, assembled, assembled>>

NextLoad ==
    \/ \E path \in LoadPaths : LoadFile(path)
    \/ \E path \in LoadPaths, text \in LoadTexts : EditFile(path, text)

SpecLoad == InitLoad /\ [][NextLoad]_vars

----------------------------------------------------------------------------
(* The protocols are constructed, then a chain runs *)

\* the arguments of the Protocol(...) calls: prompt files that exist and one
\* that does not, accesses that name a reservoir file that does not exist, a
\* protocol with commentary and one that is left out of the chain
ProtocolArgs ==
    { [name |-> "A", prompt_file |-> PathJoin(PATTERNS_DIR, <<"A.md">>),
       include_in_chain |-> TRUE,
       accesses |-> <<Binding("R", <<"file.md">>)>>,
       requires_commentary |-> FALSE],
      [name |-> "D", prompt_file |-> PathJoin(PATTERNS_DIR, <<"D.md">>),
       include_in_chain |-> TRUE,
       accesses |-> <<Binding("M", <<"missing.md">>),
                      Binding("R", <<"file.md">>)>>,
       requires_commentary |-> TRUE],
      [name |-> "B", prompt_file |-> PathJoin(PATTERNS_DIR, <<"B.md">>),
       include_in_chain |-> FALSE,
       accesses |-> <<Binding("R", <<"file.md">>)>>,
       requires_commentary |-> FALSE],
      [name |-> "Z", prompt_file |-> PathJoin(PATTERNS_DIR, <<"Z.md">>),
       include_in_chain |-> TRUE,
       accesses |-> <<Binding("M", <<"missing.md">>)>>,
       requires_commentary |-> FALSE] }

InitBuild ==
    /\ NoChain
    /\ pc = "build"
    /\ InitElsewhere

\* a constructor that keeps the error text as the prompt
BuildProtocolLenient(args) ==
    /\ pc = "build"
    /\ Len(construction) < MaxBuildProtocols
    /\ construction' = Append(construction, [args |-> args, raised |-> FALSE,
                                             error |-> <<>>])
    /\ protocols' = Append(protocols,
                           NewProtocol(args.name, args.prompt_file,
                                       args.include_in_chain, args.accesses,
                                       args.requires_commentary))
    /\ steps' = Append(steps, NoStep)
    /\ UNCHANGED <<Caller, Prototype, instance_file, assembled,
                   files, loads, tasks, writes, previous, obtained, mode, pc, i,
                   user_input, instance, results, Locals, generate_prompt, calls, warnings>>

\* Protocol(...): load_markdown(prompt_file) raises and no object is made, or
\* the fields are set; the accesses are stored and no file of theirs is opened
BuildProtocol(args) ==
    /\ pc = "build"
    /\ Len(construction) < MaxBuildProtocols
    /\ LET loaded == LoadMarkdownIn(files, args.prompt_file)
       IN  IF loaded.raised
           THEN /\ construction' = Append(construction,
                                          [args |-> args, raised |-> TRUE,
                                           error |-> loaded.value])
                /\ pc' = "raised"
                /\ UNCHANGED <<protocols, steps>>
           ELSE /\ construction' = Append(construction,
                                          [args |-> args, raised |-> FALSE,
                                           error |-> <<>>])
                /\ protocols' = Append(protocols,
                                       NewProtocol(args.name, args.prompt_file,
                                                   args.include_in_chain,
                                                   args.accesses,
                                                   args.requires_commentary))
                /\ steps' = Append(steps, NoStep)
                /\ pc' = pc
    /\ UNCHANGED <<Caller, Prototype, instance_file, assembled,
                   files, loads, tasks, writes, previous, obtained, mode, i,
                   user_input, instance, results, Locals, generate_prompt, calls, warnings>>

\* every protocol is constructed and the program goes on to its chain
Constructed ==
    /\ pc = "build"
    /\ pc' = "idle"
    /\ UNCHANGED <<Elsewhere, Caller, protocols, mode, i, user_input, instance, results,
                   Locals, generate_prompt, calls, warnings, steps>>

NextBuild ==
    \/ \E args \in ProtocolArgs : BuildProtocol(args)
    \/ Constructed
    \/ Next

SpecBuild == InitBuild /\ [][NextBuild]_vars

----------------------------------------------------------------------------
(* Two chains run concurrently on one agent *)

\* the calls of run_chain_async that are under way together
Tasks == {1, 2}

\* the user input each call is given
TaskInput(t) == IF t = 1 THEN <<"hello">> ELSE <<"again">>

\* what the model streams to each call, before .strip()
TaskResponse(t) == IF t = 1 THEN <<" ", "out1", NL>> ELSE <<"out2">>

\* a call of run_chain_async that has not begun
NoTask == [pc |-> "idle", i |-> 1, user_input |-> <<>>, results |-> <<>>,
           full_prompt |-> <<>>, original_prompt |-> <<>>,
           result_text |-> <<>>, current |-> <<>>, read_at |-> 0,
           steps |-> <<>>]

\* a step of a concurrent chain: its state, its output and which write to
\* instance.md was its append
NoTaskStep == [state |-> "Pending", output |-> <<>>, write |-> 0]

\* what the single chain of the other specifications keeps in variables
Sequential == <<mode, pc, i, user_input, results, Locals, steps>>

\* the lists two concurrent chains are given: of the protocols A, which is
\* included, and B, which is not
ConcurrentLists ==
    UNION { [1..n -> { c \in ProtocolCatalogue : c.prompt \in {<<"instructions A">>,
                                                              <<"instructions B">>} }] :
            n \in 0..MaxConcurrentProtocols }

InitConcurrent ==
    /\ protocols \in ConcurrentLists
    /\ mode = "async"
    /\ pc = "concurrent"
    /\ i = 1
    /\ user_input = <<>>
    /\ instance = Header
    /\ results = <<>>
    /\ commentary_text = <<>>
    /\ full_prompt = <<>>
    /\ original_generate_prompt = <<>>
    /\ generate_prompt = OriginalGenerator
    /\ calls = <<>>
    /\ warnings = <<>>
    /\ steps = <<>>
    /\ runs = 0
    /\ sections_before = 0
    /\ start_file = <<>>
    /\ input_edit = NotAsked
    /\ files = Files
    /\ loads = <<>>
    /\ construction = <<>>
    /\ tasks = [t \in Tasks |-> NoTask]
    /\ writes = <<>>
    /\ previous = NoPrevious
    /\ obtained = <<>>
    /\ protocol_registry = <<>>
    /\ nodes = <<>>
    /\ executed = <<>>
    /\ instance_file = <<"instance.md">>
    /\ assembled = <<>>

\* the head of run_chain_async in task t: instance.md is rewritten
EnterTask(t) ==
    /\ pc = "concurrent"
    /\ tasks[t].pc = "idle"
    /\ instance' = ResetContent(TaskInput(t))
    /\ writes' = Append(writes, [task |-> t, kind |-> "reset", step |-> 0,
                                 read_at |-> Len(writes), text |-> instance'])
    /\ tasks' = [tasks EXCEPT ![t] =
                    [@ EXCEPT !.pc = "loop", !.i = 1,
                              !.user_input = TaskInput(t),
                              !.results = <<>>,
                              !.steps = [k \in 1..Len(protocols) |-> NoTaskStep]]]
    /\ UNCHANGED <<Sequential, Caller, Prototype, instance_file, assembled,
                   files, loads, construction, previous, obtained,
                   protocols, generate_prompt, calls, warnings>>

TaskInLoop(t) ==
    /\ pc = "concurrent"
    /\ tasks[t].pc = "loop"
    /\ tasks[t].i <= Len(protocols)

\* run_protocol_async returns "" for an excluded protocol
SkipInTask(t) ==
    /\ TaskInLoop(t)
    /\ ~IsIncluded(protocols[tasks[t].i])
    /\ tasks' = [tasks EXCEPT ![t] =
                    [@ EXCEPT !.results = SkippedResults(@, protocols[tasks[t].i].name),
                              !.i = @ + 1,
                              !.steps[tasks[t].i].state = "Skipped"]]
    /\ UNCHANGED <<Sequential, Caller, Prototype, instance_file, assembled,
                   files, loads, construction, previous, obtained,
                   protocols, instance, generate_prompt, calls, warnings, writes>>

\* run_protocol_async up to its first await: instance.md is read, the prompt
\* is built, the generator is saved and replaced, the model is called
AssembleInTask(t) ==
    /\ TaskInLoop(t)
    /\ IsIncluded(protocols[tasks[t].i])
    /\ LET p == protocols[tasks[t].i]
           prompt == FullPromptAsync(p, AccessContext(p, instance),
                                     tasks[t].user_input, InstanceContent(instance))
       IN  /\ tasks' = [tasks EXCEPT ![t] =
                           [@ EXCEPT !.pc = "invoke",
                                     !.full_prompt = prompt,
                                     !.original_prompt = generate_prompt,
                                     !.steps[tasks[t].i].state = "ModelInvocation"]]
           /\ generate_prompt' = prompt
           /\ calls' = Append(calls, [step |-> tasks[t].i, chat_message |-> prompt,
                                      system |-> prompt])
           /\ warnings' = warnings \o AccessWarnings(p.accesses, tasks[t].i)
    /\ UNCHANGED <<Sequential, Caller, Prototype, instance_file, assembled,
                   files, loads, construction, previous, obtained,
                   protocols, instance, writes>>

\* the stream of task t ends: result_text, the generator saved by the task is
\* put back
StreamEndsInTask(t) ==
    /\ pc = "concurrent"
    /\ tasks[t].pc = "invoke"
    /\ tasks' = [tasks EXCEPT ![t] =
                    [@ EXCEPT !.pc = "append",
                              !.result_text = Strip(TaskResponse(t))]]
    /\ generate_prompt' = tasks[t].original_prompt
    /\ UNCHANGED <<Sequential, Caller, Prototype, instance_file, assembled,
                   files, loads, construction, previous, obtained,
                   protocols, instance, calls, warnings, writes>>

\* the model call of task t raises: the except clause of run_chain_async
ModelRaisesInTask(t, err) ==
    /\ pc = "concurrent"
    /\ tasks[t].pc = "invoke"
    /\ tasks' = [tasks EXCEPT ![t] =
                    [@ EXCEPT !.pc = "loop",
                              !.results = DictSet(@, protocols[tasks[t].i].name,
                                                  ErrorMarker(err)),
                              !.i = @ + 1,
                              !.steps[tasks[t].i].state = "Failed"]]
    /\ UNCHANGED <<Sequential, Caller, Prototype, instance_file, assembled,
                   files, loads, construction, previous, obtained,
                   protocols, instance, generate_prompt, calls, warnings, writes>>

\* _append_to_instance, `current = self._read_instance()`
ReadInTask(t) ==
    /\ pc = "concurrent"
    /\ tasks[t].pc = "append"
    /\ tasks' = [tasks EXCEPT ![t] =
                    [@ EXCEPT !.pc = "write",
                              !.current = ReadInstance(instance),
                              !.read_at = Len(writes)]]
    /\ UNCHANGED <<Sequential, Caller, Prototype, instance_file, assembled,
                   files, loads, construction, previous, obtained,
                   protocols, instance, generate_prompt, calls, warnings, writes>>

\* _append_to_instance, `self._write_instance(updated)`, the return of
\* run_protocol_async and results[protocol.name] = output
WriteInTask(t) ==
    /\ pc = "concurrent"
    /\ tasks[t].pc = "write"
    /\ instance' = AppendToInstance(tasks[t].current,
                                    OutputTitle(protocols[tasks[t].i]),
                                    tasks[t].result_text)
    /\ writes' = Append(writes, [task |-> t, kind |-> "append", step |-> tasks[t].i,
                                 read_at |-> tasks[t].read_at, text |-> instance'])
    /\ tasks' = [tasks EXCEPT ![t] =
                    [@ EXCEPT !.pc = "loop",
                              !.results = DictSet(@, protocols[tasks[t].i].name,
                                                  tasks[t].result_text),
                              !.i = @ + 1,
                              !.steps[tasks[t].i] =
                                  [state |-> "Appended",
                                   output |-> tasks[t].result_text,
                                   write |-> Len(writes')]]]
    /\ UNCHANGED <<Sequential, Caller, Prototype, instance_file, assembled,
                   files, loads, construction, previous, obtained,
                   protocols, generate_prompt, calls, warnings>>

\* return results
ReturnInTask(t) ==
    /\ pc = "concurrent"
    /\ tasks[t].pc = "loop"
    /\ tasks[t].i > Len(protocols)
    /\ tasks' = [tasks EXCEPT ![t] = [@ EXCEPT !.pc = "done"]]
    /\ UNCHANGED <<Sequential, Caller, Prototype, instance_file, assembled,
                   files, loads, construction, previous, obtained,
                   protocols, instance, generate_prompt, calls, warnings, writes>>

NextConcurrent ==
    \/ \E t \in Tasks : EnterTask(t)
    \/ \E t \in Tasks : SkipInTask(t)
    \/ \E t \in Tasks : AssembleInTask(t)
    \/ \E t \in Tasks : StreamEndsInTask(t)
    \/ \E t \in Tasks, err \in ModelErrors : ModelRaisesInTask(t, err)
    \/ \E t \in Tasks : ReadInTask(t)
    \/ \E t \in Tasks : WriteInTask(t)
    \/ \E t \in Tasks : ReturnInTask(t)

SpecConcurrent == InitConcurrent /\ [][NextConcurrent]_vars

----------------------------------------------------------------------------
(* The user input is written to instance.md and read back *)

\* the user inputs that are stored: a word, a text with whitespace around it,
\* two lines, whitespace alone, a text with a line that begins with a rule
StoreInputs ==
    { <<"hello">>, <<" ", "hello", NL>>, <<"a", NL, "b">>, <<" ", NL>>,
      <<"a", NL, "---", NL, "b">> }

\* what is appended under a section title
StoreContents == { <<"out1">> }

InitStore ==
    /\ NoChain
    /\ pc = "store"
    /\ InitElsewhere

\* the head of run_chain: instance.md is rewritten with the user input
ResetStore(u) ==
    /\ pc \in {"store", "chain", "stored"}
    /\ instance' = ResetContent(u)
    /\ user_input' = u
    /\ pc' = "chain"
    /\ UNCHANGED <<Elsewhere, Caller, protocols, mode, i, results, Locals,
                   generate_prompt, calls, warnings, steps>>

\* _append_to_instance of a step of the chain
AppendStore(content) ==
    /\ pc = "chain"
    /\ Count(instance, "---") < MaxStoreSections
    /\ instance' = AppendToInstance(instance, <<"A", " Output">>, content)
    /\ UNCHANGED <<Elsewhere, Caller, protocols, mode, pc, i, user_input, results,
                   Locals, generate_prompt, calls, warnings, steps>>

\* obtain_user_input(instance_path): the stored input is returned when there
\* is one; otherwise the editor is opened, and the program exits or the
\* filtered text is written to the file and returned
ObtainFromStore(edited) ==
    /\ pc \in {"store", "chain", "stored"}
    /\ Len(obtained) < MaxObtains
    /\ LET stored == StoredUserInput(instance)
           call == [file |-> instance, held |-> pc # "store", u |-> user_input]
       IN  IF stored # <<>>
           THEN /\ obtained' = Append(obtained,
                                      call @@ [returned |-> stored, edit |-> NotAsked,
                                               after |-> instance])
                /\ UNCHANGED <<instance, user_input, pc>>
           ELSE IF EditorAborted(edited)
           THEN /\ obtained' = Append(obtained,
                                      call @@ [returned |-> <<"<exit>">>, edit |-> edited,
                                               after |-> instance])
                /\ pc' = "exited"
                /\ UNCHANGED <<instance, user_input>>
           ELSE /\ instance' = WriteUserInput(instance, FilteredInput(edited.text))
                /\ user_input' = FilteredInput(edited.text)
                /\ obtained' = Append(obtained,
                                      call @@ [returned |-> user_input', edit |-> edited,
                                               after |-> instance'])
                /\ pc' = "stored"
    /\ UNCHANGED <<Caller, Prototype, instance_file, assembled,
                   files, loads, construction, tasks, writes,
                   previous, protocols, mode, i, results, Locals, generate_prompt,
                   calls, warnings, steps>>

NextStore ==
    \/ \E u \in StoreInputs : ResetStore(u)
    \/ \E content \in StoreContents : AppendStore(content)
    \/ \E edited \in InputEditorAnswers : ObtainFromStore(edited)

SpecStore == InitStore /\ [][NextStore]_vars

----------------------------------------------------------------------------
(* The registry prototype: ProtocolRegistry, MemoryManager, ExecutionEngine *)

\* the names bound in the module of engine.py: its imports and its class
EngineGlobals ==
    {"Protocol", "Dict", "Optional", "AbstractionNode", "ExecutionEngine"}

\* the protocols that are registered
RegistryProtocols ==
    { [name |-> "Extract", version |-> "1.0"],
      [name |-> "Atomize", version |-> "1.0"] }

\* the names execute_protocol is called with: two that may be registered
\* and one that never is
RegistryNames == {"Extract", "Atomize", "Summarize"}

\* input_data: no content key, an empty content, a content
InputData ==
    { <<>>,
      <<[key |-> "content", value |-> <<>>]>>,
      <<[key |-> "content", value |-> <<"Sample text">>]>> }

\* None, where a node is expected
NoNode == [id |-> 0, content |-> <<>>, metadata |-> <<>>]

\* AbstractionNode(content, metadata): id is a uuid4, here the number id
AbstractionNode(id, content, metadata) ==
    [id |-> id, content |-> content, metadata |-> metadata]

\* GodOfWhatIs.run: the node "Processed <content>" of the protocol
GodOfWhatIsRun(p, input_data, id) ==
    AbstractionNode(id,
                    <<"Processed ">> \o (IF DictHas(input_data, "content")
                                         THEN DictGet(input_data, "content")
                                         ELSE <<>>),
                    [protocol |-> p.name, version |-> p.version])

\* GodOfWhatIsNot.validate: the node when it has content, otherwise None
Validate(node) == IF node.content # <<>> THEN node ELSE NoNode

\* MemoryManager.store
Store(ns, node) == DictSet(ns, node.id, node)

\* MemoryManager.retrieve
Retrieve(ns, node_id) == IF DictHas(ns, node_id) THEN DictGet(ns, node_id) ELSE NoNode

InitRegistry ==
    /\ NoChain
    /\ pc = "registry"
    /\ InitElsewhere

\* ProtocolRegistry.register
Register(p) ==
    /\ pc = "registry"
    /\ protocol_registry' = DictSet(protocol_registry, p.name, p)
    /\ UNCHANGED <<Chain, Caller, files, loads, construction, tasks, writes,
                   previous, obtained, nodes, executed, instance_file, assembled>>

\* ExecutionEngine.execute_protocol: None for a name that is not registered;
\* otherwise the two agents are instantiated by names the module has to
\* hold, the result of the first is validated by the second, and a
\* validated node is stored and returned
ExecuteProtocol(protocol_name, input_data) ==
    /\ pc = "registry"
    /\ Len(executed) < MaxExecutions
    /\ LET found == DictHas(protocol_registry, protocol_name)
           p == DictGet(protocol_registry, protocol_name)
           bound == {"GodOfWhatIs", "GodOfWhatIsNot"} \subseteq EngineGlobals
           result == GodOfWhatIsRun(p, input_data, Len(executed) + 1)
           validated_result == Validate(result)
           call == [protocol_name |-> protocol_name, input_data |-> input_data,
                    registered |-> found, before |-> nodes]
       IN  IF ~found
           THEN /\ executed' = Append(executed,
                                      call @@ [outcome |-> "None", returned |-> NoNode,
                                               after |-> nodes])
                /\ UNCHANGED nodes
           ELSE IF ~bound
           THEN /\ executed' = Append(executed,
                                      call @@ [outcome |-> "NameError",
                                               returned |-> NoNode, after |-> nodes])
                /\ UNCHANGED nodes
           ELSE IF validated_result # NoNode
           THEN /\ nodes' = Store(nodes, validated_result)
                /\ executed' = Append(executed,
                                      call @@ [outcome |-> "node",
                                               returned |-> validated_result,
                                               after |-> nodes'])
           ELSE /\ executed' = Append(executed,
                                      call @@ [outcome |-> "None", returned |-> NoNode,
                                               after |-> nodes])
                /\ UNCHANGED nodes
    /\ UNCHANGED <<Chain, Caller, files, loads, construction, tasks, writes,
                   previous, obtained, protocol_registry, instance_file, assembled>>

NextRegistry ==
    \/ \E p \in RegistryProtocols : Register(p)
    \/ \E protocol_name \in RegistryNames, input_data \in InputData :
          ExecuteProtocol(protocol_name, input_data)

SpecRegistry == InitRegistry /\ [][NextRegistry]_vars

----------------------------------------------------------------------------
(* The access context, by the protocol and by the agent *)

\* the reservoir files that are there or not
AccessPaths ==
    { PathJoin(RESERVOIR_DIR, <<name>>) :
         name \in {"file.md", "missing.md", "instance.md"} }

\* the file systems: every subset of the reservoir files is present
AccessFiles ==
    { [path \in Paths |-> IF path \in present THEN <<" ", "text of ">> \o path.name
                          ELSE IF path \in AccessPaths THEN <<"<no such file>">>
                          ELSE Files[path]] :
         present \in SUBSET AccessPaths }

\* protocols without bindings, with reservoirs only, and with the sentinel
\* spelled as it is and in capitals
AccessCatalogue ==
    { NewProtocol("A", PathJoin(PATTERNS_DIR, <<"A.md">>), TRUE, <<>>, FALSE),
      NewProtocol("B", PathJoin(PATTERNS_DIR, <<"B.md">>), TRUE,
                  <<Binding("M", <<"missing.md">>),
                    Binding("R", <<"file.md">>)>>, FALSE),
      NewProtocol("C", PathJoin(PATTERNS_DIR, <<"C.md">>), TRUE,
                  <<Binding("R", <<"file.md">>),
                    Binding("W", <<"instance.md">>)>>, FALSE),
      NewProtocol("D", PathJoin(PATTERNS_DIR, <<"D.md">>), TRUE,
                  <<Binding("W", <<" ", "Instance.MD">>)>>, FALSE) }

\* the working memory at the time: after a reset, and with a section
AccessMemories ==
    { ResetContent(<<"hello">>),
      AppendToInstance(ResetContent(<<"hello">>), <<"A", " Output">>, <<"out1">>) }

\* a loop that ends at the first reservoir it cannot load
RECURSIVE ContextPartsEndingAtFailure(_, _, _)
ContextPartsEndingAtFailure(fs, accesses, reservoir_dir) ==
    IF accesses = <<>> THEN <<>>
    ELSE LET b == Head(accesses)
             loaded == LoadMarkdownIn(fs, PathJoin(reservoir_dir, b.filename))
         IN  IF loaded.raised THEN <<>>
             ELSE << <<"### ", b.label, ":", NL>> \o loaded.value >>
                     \o ContextPartsEndingAtFailure(fs, Tail(accesses), reservoir_dir)

\* context_parts of get_all_access_context: every binding goes to
\* load_markdown, one that cannot be loaded is left out
RECURSIVE ContextParts(_, _, _)
ContextParts(fs, accesses, reservoir_dir) ==
    IF accesses = <<>> THEN <<>>
    ELSE LET b == Head(accesses)
             rest == ContextParts(fs, Tail(accesses), reservoir_dir)
             loaded == LoadMarkdownIn(fs, PathJoin(reservoir_dir, b.filename))
         IN  IF loaded.raised THEN rest
             ELSE << <<"### ", b.label, ":", NL>> \o loaded.value >> \o rest

\* Protocol.get_all_access_context(reservoir_dir) in a file system
GetAllAccessContext(fs, p, reservoir_dir) ==
    Join(<<NL, NL>>, ContextParts(fs, p.accesses, reservoir_dir))

InitAccess ==
    /\ NoChain
    /\ pc = "access"
    /\ loads = <<>>
    /\ construction = <<>>
    /\ tasks = <<>>
    /\ writes = <<>>
    /\ previous = NoPrevious
    /\ obtained = <<>>
    /\ protocol_registry = <<>>
    /\ nodes = <<>>
    /\ executed = <<>>
    /\ instance_file = <<"instance.md">>
    /\ assembled = <<>>
    /\ files \in AccessFiles

\* the working memory is as a chain has left it
WriteMemory(memory) ==
    /\ pc = "access"
    /\ assembled = <<>>
    /\ instance' = memory
    /\ UNCHANGED <<Elsewhere, Caller, protocols, mode, pc, i, user_input, results,
                   Locals, generate_prompt, calls, warnings, steps>>

\* protocol.get_all_access_context(reservoir_dir) is called
CallGetAllAccessContext(p) ==
    /\ pc = "access"
    /\ Len(assembled) < MaxAssemblies
    /\ assembled' = Append(assembled,
                           [by |-> "get_all_access_context", protocol |-> p,
                            block |-> GetAllAccessContext(files, p, RESERVOIR_DIR)])
    /\ UNCHANGED <<Chain, Caller, Prototype, files, loads, construction, tasks,
                   writes, previous, obtained, instance_file>>

\* the access context of run_protocol is assembled for the protocol
AssembleAccessContext(p) ==
    /\ pc = "access"
    /\ Len(assembled) < MaxAssemblies
    /\ assembled' = Append(assembled,
                           [by |-> "run_protocol", protocol |-> p,
                            block |-> Join(<<NL, NL>>,
                                           AccessPartsIn(files, p.accesses, instance))])
    /\ UNCHANGED <<Chain, Caller, Prototype, files, loads, construction, tasks,
                   writes, previous, obtained, instance_file>>

NextAccess ==
    \/ \E memory \in AccessMemories : WriteMemory(memory)
    \/ \E p \in AccessCatalogue : CallGetAllAccessContext(p)
    \/ \E p \in AccessCatalogue : AssembleAccessContext(p)

SpecAccess == InitAccess /\ [][NextAccess]_vars

----------------------------------------------------------------------------
(* main *)

\* what instance.md may hold when main begins: nothing (or no file), the
\* header, a user input as obtain_user_input stored it, a user input and a
\* section as an earlier chain left them
StartFiles ==
    { <<>>,
      <<"# Internal Reservoir Instance", NL, NL>>,
      WriteUserInput(<<"# Internal Reservoir Instance", NL, NL>>, <<"stored">>),
      AppendToInstance(ResetContent(<<"stored">>), <<"A", " Output">>, <<"out1">>) }

InitMain ==
    /\ protocols \in ProtocolLists /\ Len(protocols) <= MaxMainProtocols
    /\ mode = "none"
    /\ pc = "main"
    /\ i = 1
    /\ user_input = <<>>
    /\ start_file \in StartFiles
    /\ instance = start_file
    /\ results = <<>>
    /\ commentary_text = <<>>
    /\ full_prompt = <<>>
    /\ original_generate_prompt = <<>>
    /\ generate_prompt = OriginalGenerator
    /\ calls = <<>>
    /\ warnings = <<>>
    /\ steps = [k \in 1..Len(protocols) |-> NoStep]
    /\ runs = 0
    /\ sections_before = 0
    /\ input_edit = NotAsked
    /\ InitElsewhere

\* main: agent = AgentChain(config, instance_file="instance.md"); __init__
\* writes the header to the instance file
Construct ==
    /\ pc = "main"
    /\ instance' = Header
    /\ pc' = "obtain"
    /\ UNCHANGED <<Elsewhere, Caller, protocols, mode, i, user_input, results, Locals,
                   generate_prompt, calls, warnings, steps>>

\* obtain_user_input up to click.edit: the stored user input is returned
\* when there is one, otherwise the editor is opened
ObtainUserInput ==
    /\ pc = "obtain"
    /\ LET stored == StoredUserInput(instance)
       IN  IF stored # <<>>
           THEN user_input' = stored /\ pc' = "ready"
           ELSE user_input' = user_input /\ pc' = "editor"
    /\ UNCHANGED <<Elsewhere, Caller, protocols, mode, i, instance, results, Locals,
                   generate_prompt, calls, warnings, steps>>

\* click.edit returns: exit(1) when the editor was closed without saving,
\* otherwise the filtered text is stored in the instance file and returned
InputEditorReturns(edited) ==
    /\ pc = "editor"
    /\ input_edit' = edited
    /\ IF EditorAborted(edited)
       THEN pc' = "exited" /\ UNCHANGED <<user_input, instance>>
       ELSE /\ user_input' = FilteredInput(edited.text)
            /\ instance' = WriteUserInput(instance, FilteredInput(edited.text))
            /\ pc' = "ready"
    /\ UNCHANGED <<Elsewhere, runs, sections_before, start_file, protocols, mode, i,
                   results, Locals, generate_prompt, calls, warnings, steps>>

\* main: agent.run_chain(user_input, protocols, RESERVOIR_DIR)
MainRunChain ==
    /\ pc = "ready"
    /\ mode' = "sync"
    /\ instance' = ResetContent(user_input)
    /\ results' = <<>>
    /\ i' = 1
    /\ pc' = "loop"
    /\ EnterChain
    /\ UNCHANGED <<Elsewhere, protocols, user_input, Locals, generate_prompt,
                   start_file, input_edit>>

NextMain ==
    \/ Construct
    \/ ObtainUserInput
    \/ \E edited \in InputEditorAnswers : InputEditorReturns(edited)
    \/ MainRunChain
    \/ SkipProtocol
    \/ StartProtocol
    \/ RequestCommentary
    \/ \E edited \in EditorAnswers : CommentaryReturns(edited)
    \/ \E err \in EditorErrors : CommentaryRaises(err)
    \/ AssemblePrompt
    \/ \E err \in ReadErrors : AssembleRaises(err)
    \/ \E response \in ModelResponses : ModelReturns(response)
    \/ \E err \in ModelErrors : ModelRaises(err)
    \/ ReturnResults

SpecMain == InitMain /\ [][NextMain]_vars

----------------------------------------------------------------------------
(* A chain under fairness *)

InitFair == Init /\ Len(protocols) <= MaxFairProtocols

SpecFair == InitFair /\ [][Next]_vars /\ WF_vars(Next)

----------------------------------------------------------------------------
(* What the properties are stated with *)

NProtocols == Len(protocols)

Names == [k \in 1..NProtocols |-> protocols[k].name]

UniqueNames == \A a, b \in 1..NProtocols : a # b => Names[a] # Names[b]

Done == pc = "done"

Terminal == {"Skipped", "Appended", "Failed"}

\* the steps the loop has finished
Finished == {k \in 1..NProtocols : steps[k].state \in Terminal}

\* no finished step after k has written results under the name of step k
HoldsItsEntry(k) ==
    \A j \in Finished : j > k => Names[j] # Names[k]

IsPrefix(s, t) == Len(s) <= Len(t) /\ SubSeq(t, 1, Len(s)) = s

\* text t stands in s from place `at` on
StandsAt(s, at, t) ==
    at >= 1 /\ at + Len(t) - 1 <= Len(s) /\ SubSeq(s, at, at + Len(t) - 1) = t

Contains(s, t) ==
    \/ t = <<>>
    \/ \E at \in 1..Len(s) : s[at] = t[1] /\ StandsAt(s, at, t)

\* the working memory the steps before step k leave: the reset content and
\* one section per step that reached Appended, in list order
RECURSIVE SectionsUpTo(_)
SectionsUpTo(n) ==
    IF n = 0 THEN <<>>
    ELSE SectionsUpTo(n - 1) \o
         (IF steps[n].state = "Appended"
          THEN <<NL, NL, "---", NL, "### ", Names[n], " Output", NL, NL>>
               \o Strip(steps[n].response) \o <<NL>>
          ELSE <<>>)

MemoryBefore(k) ==
    <<"# Internal Reservoir Instance", NL, NL, "[User Input]:", NL>>
    \o user_input \o <<NL>> \o SectionsUpTo(k - 1)

----------------------------------------------------------------------------
(* C1 *)

\* C1: when run_chain or run_chain_async returns for a list of protocols with
\* unique names, the keys of the returned dict are the names of the list, in
\* the order of the list: one entry per protocol, whatever steps were
\* skipped, succeeded or failed.
C1_OneEntryPerProtocolInOrder ==
    (Done /\ UniqueNames) => DictKeys(results) = Names

C1_Witness ==
    /\ Done /\ UniqueNames /\ NProtocols = 3
    /\ \E a, b, c \in 1..NProtocols :
          /\ steps[a].state = "Skipped"
          /\ steps[b].state = "Appended"
          /\ steps[c].state = "Failed"

----------------------------------------------------------------------------
(* C2 *)

\* what step k leaves in results: "" when skipped, the stripped answer of
\* its own model call when appended, the marker of its own error when failed
OwnResult(k) ==
    CASE steps[k].state = "Skipped" -> <<>>
      [] steps[k].state = "Appended" -> Strip(steps[k].response)
      [] steps[k].state = "Failed" -> <<"Error: ">> \o steps[k].error
      [] OTHER -> <<"<pending>">>

FailedInInvocation == {k \in 1..NProtocols :
                         steps[k].state = "Failed" /\ steps[k].failed_in = "invocation"}

\* C2: a step whose model call raises does not stop the loop.  The steps are
\* finished one after the other in list order, the chain returns only when
\* every step of the list is Skipped, Appended or Failed, and in a returned
\* chain with a failed model call every other step is in results with its own
\* result (its own stripped model answer, "" when skipped), unless a later
\* step of the same name has taken the entry.
C2_FaultIsolation ==
    /\ \A k \in 1..NProtocols : k < i <=> k \in Finished
    /\ \A n \in 1..Len(calls) : \A m \in 1..(n - 1) : calls[m].step < calls[n].step
    /\ Done =>
         /\ Finished = 1..NProtocols
         /\ FailedInInvocation # {} =>
              \A k \in 1..NProtocols :
                 HoldsItsEntry(k) =>
                    /\ DictHas(results, Names[k])
                    /\ DictGet(results, Names[k]) = OwnResult(k)

\* step 2 of 3 failed in the model call, steps 1 and 3 were appended with
\* different answers
C2_Witness ==
    /\ Done /\ NProtocols = 3 /\ UniqueNames
    /\ FailedInInvocation = {2}
    /\ steps[1].state = "Appended" /\ steps[3].state = "Appended"
    /\ DictGet(results, Names[1]) # DictGet(results, Names[3])

----------------------------------------------------------------------------
(* C3 *)

Excluded == {k \in 1..NProtocols : ~protocols[k].include_in_chain}

\* C3: for a protocol with include_in_chain false, in both modes: the model is
\* never called for it, its step is never anywhere but Pending or Skipped,
\* and once the loop has passed it results holds "" under its name (until a
\* later step of the same name runs).
C3_ExcludedIsEmptyAndNeverCallsModel ==
    \A k \in Excluded :
       /\ \A n \in 1..Len(calls) : calls[n].step # k
       /\ steps[k].state \in {"Pending", "Skipped"}
       /\ i = k => pc \in {"loop", "idle"}
       /\ k < i => steps[k].state = "Skipped"
       /\ (k < i /\ HoldsItsEntry(k)) =>
             /\ DictHas(results, Names[k])
             /\ DictGet(results, Names[k]) = <<>>

\* an excluded protocol that stands last, after a failed and an appended step
C3_Witness ==
    /\ Done /\ NProtocols = 3 /\ 3 \in Excluded
    /\ steps[1].state = "Failed" /\ steps[2].state = "Appended"
    /\ DictGet(results, Names[3]) = <<>>

----------------------------------------------------------------------------
(* C4 *)

\* C4: when the chain has returned, instance.md is the header, the user
\* input and one section per protocol that reached Appended, in list order,
\* each titled with its protocol's name and holding its stripped answer;
\* there is no section of a skipped or failed protocol and there are as many
\* sections as appended steps.
C4_MemoryAfterRun ==
    Done =>
      /\ instance = MemoryBefore(NProtocols + 1)
      /\ Count(instance, "---") =
            Cardinality({k \in 1..NProtocols : steps[k].state = "Appended"})

\* two appended steps around a failed one
C4_Witness ==
    /\ Done /\ NProtocols = 3
    /\ steps[1].state = "Appended" /\ steps[2].state = "Failed"
    /\ steps[3].state = "Appended"
    /\ Count(instance, "---") = 2

----------------------------------------------------------------------------
(* C5 *)

RaisedMessages == EditorErrors \cup ReadErrors \cup ModelErrors

----------------------------------------------------------------------------
(* C6 *)

\* `new` is `old` with one block at its end: the "---" rule, a "### " title
\* line, a blank line, a body and a newline
OneBlockAppended(old, new) ==
    /\ IsPrefix(old, new)
    /\ LET block == SubSeq(new, Len(old) + 1, Len(new))
       IN  /\ Len(block) >= 10
           /\ SubSeq(block, 1, 5) = <<NL, NL, "---", NL, "### ">>
           /\ block[6] \notin Whitespace
           /\ SubSeq(block, 8, 9) = <<NL, NL>>
           /\ block[Len(block)] = NL
           /\ Count(block, "---") = 1
           /\ Count(block, "### ") = 1

\* C6: from the reset of run_chain on, instance.md starts with the header and
\* the reset content, and every step of the program either leaves it as it is
\* or puts exactly one block at its end; nothing that is there is edited,
\* moved or removed, so every earlier content is a prefix of every later one.
C6_AppendOnly ==
    /\ [](IsPrefix(<<"# Internal Reservoir Instance", NL, NL>>, instance))
    /\ [](pc # "idle" =>
            IsPrefix(<<"# Internal Reservoir Instance", NL, NL, "[User Input]:", NL>>
                       \o user_input \o <<NL>>, instance))
    /\ [][pc # "idle" =>
            (instance' = instance \/ OneBlockAppended(instance, instance'))]_vars

\* three blocks have been appended
C6_Witness == Done /\ Count(instance, "---") = 3

----------------------------------------------------------------------------
(* C7 *)

InStep == pc \in {"commentary", "assemble", "invoke"}

\* C7: a step changes instance.md only by reaching Appended.  While a step is
\* under way the file is what it was when the step began; a skipped step and
\* a step that failed in commentary collection, prompt assembly or model
\* invocation leave it exactly as it was when the step began; a finished step
\* after which the file differs is Appended.
C7_OnlyAppendedChangesMemory ==
    /\ InStep => instance = steps[i].wm_before
    /\ \A k \in Finished :
          /\ steps[k].state = "Skipped" => steps[k].wm_after = steps[k].wm_before
          /\ (steps[k].state = "Failed"
                /\ steps[k].failed_in \in {"commentary", "assembly", "invocation"})
               => steps[k].wm_after = steps[k].wm_before
          /\ steps[k].wm_after # steps[k].wm_before => steps[k].state = "Appended"
          /\ k + 1 \in Finished => steps[k + 1].wm_before = steps[k].wm_after

\* a step appended, then a failed model call and a skipped step that left the
\* file with its one section
C7_Witness ==
    /\ Done /\ NProtocols = 3
    /\ steps[1].state = "Appended"
    /\ steps[2].state = "Failed" /\ steps[2].failed_in = "invocation"
    /\ steps[3].state = "Skipped"
    /\ instance = steps[1].wm_after

----------------------------------------------------------------------------
(* C8 *)

\* the part of a prompt after "Current Instance Context:\n", without the
\* newline that ends the prompt
InstancePart(p) ==
    SubSeq(p, IndexOf(p, "Current Instance Context:") + 2, Len(p) - 1)

\* the part of a prompt between "Access Contexts:\n" and "User Input:"
AccessPart(p) ==
    SubSeq(p, IndexOf(p, "Access Contexts:") + 2, IndexOf(p, "User Input:") - 1)

\* C8: in every model call of a chain, when the call is made, the "Current
\* Instance Context" part of the prompt of step k is the working memory as the
\* steps before k left it
\* (the reset content and the sections of the earlier steps that succeeded),
\* whether or not the protocol declares a working-memory access, and every
\* working-memory subsection of its access context holds that same content.
C8_PromptCarriesEarlierOutputs ==
    pc = "invoke" =>
       LET k == calls[Len(calls)].step
           p == calls[Len(calls)].chat_message
           before == MemoryBefore(k)
           access == AccessPart(p)
       IN  /\ k = i
           /\ IndexOf(p, "Current Instance Context:") > 0
           /\ InstancePart(p) = before
           /\ \A m \in 1..Len(protocols[k].accesses) :
                 LET b == protocols[k].accesses[m]
                 IN  Lower(Strip(b.filename)) = <<"instance.md">> =>
                        StandsAt(access, IndexOf(access, b.label) - 1,
                                 <<"### ", b.label, " (Working Memory):", NL>>
                                    \o before \o <<NL>>)

\* the third step has no working-memory access and its prompt carries the
\* sections of the two steps before it
C8_Witness ==
    \E n \in {Len(calls)} \ {0} :
       /\ pc = "invoke"
       /\ calls[n].step = 3
       /\ \A m \in 1..Len(protocols[3].accesses) :
             ~IsWorkingMemory(protocols[3].accesses[m].filename)
       /\ steps[1].state = "Appended" /\ steps[2].state = "Appended"
       /\ Count(InstancePart(calls[n].chat_message), "---") = 2

----------------------------------------------------------------------------
(* C9 *)

NotNewline(token) == token # NL

\* the tokens of a text that are not newlines
WithoutNewlines(s) == SelectSeq(s, NotNewline)

\* C9: the prompt a step sends is, in this order: the "Protocol:" line with
\* the name, the instructions, the access-context block, the commentary block
\* when commentary was collected (and none otherwise), the raw user input, and
\* last the content instance.md has at that point, which is the content just
\* before the step's own output is appended; between these parts stand only
\* newlines.
C9_PromptOrder ==
    pc = "invoke" =>
       LET p == full_prompt
           access == AccessContext(protocol, instance)
           iI == IndexOf(p, "Instructions:")
           iA == IndexOf(p, "Access Contexts:")
           iC == IndexOf(p, "Commentary for ")
           iU == IndexOf(p, "User Input:")
           iW == IndexOf(p, "Current Instance Context:")
           block == IF commentary_text = <<>> THEN <<>>
                    ELSE <<"Commentary for ", protocol.name, ":", NL>>
                         \o commentary_text
       IN  /\ p = calls[Len(calls)].chat_message
           /\ StandsAt(p, 1, <<"Protocol: ", protocol.name, NL>>)
           /\ 1 < iI /\ iI < iA /\ iA < iU /\ iU < iW
           /\ StandsAt(p, iI, <<"Instructions:", NL>> \o protocol.prompt \o <<NL>>)
           /\ StandsAt(p, iA, <<"Access Contexts:", NL>> \o access \o <<NL>>)
           /\ commentary_text = <<>> => iC = 0
           /\ commentary_text # <<>> =>
                 /\ iC = iA + 2 + Len(access) + 3
                 /\ iC < iU
                 /\ StandsAt(p, iC, block \o <<NL>>)
           /\ StandsAt(p, iU, <<"User Input:", NL>> \o user_input \o <<NL>>)
           /\ StandsAt(p, iW, <<"Current Instance Context:", NL>> \o instance \o <<NL>>)
           /\ Len(p) = iW + 2 + Len(instance)
           /\ instance = steps[i].wm_before
           /\ WithoutNewlines(p) =
                 WithoutNewlines(<<"Protocol: ", protocol.name, "Instructions:">>
                                 \o protocol.prompt \o <<"Access Contexts:">> \o access
                                 \o block \o <<"User Input:">> \o user_input
                                 \o <<"Current Instance Context:">> \o instance)

\* the second step of a synchronous chain sends a prompt with commentary and
\* with the section of the first step
C9_Witness ==
    /\ pc = "invoke" /\ mode = "sync" /\ i = 2
    /\ commentary_text = <<"note">>
    /\ steps[1].state = "Appended"
    /\ protocol.accesses # <<>>

----------------------------------------------------------------------------
(* C10 *)

\* the binding names a reservoir file that load_markdown cannot load
Unresolvable(b) ==
    /\ Lower(Strip(b.filename)) # <<"instance.md">>
    /\ ~PathExists(PathJoin(RESERVOIR_DIR, b.filename))

Resolvable(b) == ~Unresolvable(b)

HasUnresolvable(k) ==
    \E m \in 1..Len(protocols[k].accesses) : Unresolvable(protocols[k].accesses[m])

\* the subsection of a binding that resolves, for working memory `memory`
Subsection(b, memory) ==
    IF Lower(Strip(b.filename)) = <<"instance.md">>
    THEN <<"### ", b.label, " (Working Memory):", NL>> \o memory
    ELSE <<"### ", b.label, ":", NL>>
         \o Strip(FileText(PathJoin(RESERVOIR_DIR, b.filename)))

\* the subsections of the bindings that resolve, in declared order, with a
\* blank line between them
ResolvableBlock(k, memory) ==
    LET kept == SelectSeq(protocols[k].accesses, Resolvable)
    IN  Join(<<NL, NL>>, [m \in 1..Len(kept) |-> Subsection(kept[m], memory)])

\* C10: a reservoir binding that cannot be resolved never fails a step.  When
\* a step with such a binding has read instance.md, it calls the model with a
\* prompt whose access context holds exactly the subsections of its other
\* bindings, in order; a warning is logged for each binding left out and for
\* nothing else; the step is Failed only by an exception of the editor, of the
\* read of instance.md or of the model call, and once the model has answered
\* it is Appended.
C10_FailSoftReservoir ==
    /\ \A n \in 1..Len(warnings) :
          /\ Unresolvable([label |-> warnings[n].label,
                           filename |-> warnings[n].filename])
          /\ \E c \in 1..Len(calls) : calls[c].step = warnings[n].step
    /\ \A k \in 1..NProtocols :
          HasUnresolvable(k) =>
             /\ steps[k].state = "Failed" =>
                   /\ steps[k].error \in RaisedMessages
                   /\ steps[k].response = <<>>
             /\ steps[k].response # <<>> => steps[k].state = "Appended"
             /\ (pc = "invoke" /\ i = k) =>
                   /\ calls # <<>> /\ calls[Len(calls)].step = k
                   /\ StandsAt(full_prompt, IndexOf(full_prompt, "Access Contexts:"),
                               <<"Access Contexts:", NL>>
                                  \o ResolvableBlock(k, instance) \o <<NL>>)
                   /\ \A m \in 1..Len(protocols[k].accesses) :
                         Unresolvable(protocols[k].accesses[m]) =>
                            /\ IndexOf(full_prompt, protocols[k].accesses[m].label) = 0
                            /\ \E n \in 1..Len(warnings) :
                                  /\ warnings[n].step = k
                                  /\ warnings[n].label = protocols[k].accesses[m].label
             /\ (steps[k].state \in {"ModelInvocation", "Appended"}
                   \/ steps[k].failed_in = "invocation")
                  => Cardinality({c \in 1..Len(calls) : calls[c].step = k}) = 1

\* a step with a missing reservoir among resolvable bindings was appended, and
\* so was a step whose only reservoir is missing
C10_Witness ==
    /\ Done /\ NProtocols = 2
    /\ steps[1].state = "Appended" /\ Len(protocols[1].accesses) = 4
    /\ steps[2].state = "Appended" /\ Len(protocols[2].accesses) = 1
    /\ HasUnresolvable(1) /\ HasUnresolvable(2)
    /\ Len(warnings) = 2

----------------------------------------------------------------------------
(* C11 *)

\* where the subsection of binding b begins in an access context, 0 when it
\* has none
SubsectionPlace(access, b) ==
    LET at == IndexOf(access, b.label)
    IN  IF at > 1
           /\ access[at - 1] = "### "
           /\ (at = 2 \/ SubSeq(access, at - 3, at - 2) = <<NL, NL>>)
        THEN at - 1 ELSE 0

\* C11: in the access context of a prompt the subsections stand in the order
\* in which the protocol declares its bindings, working memory and reservoirs
\* mixed as declared: of two bindings that resolve, the one declared first has
\* its subsection first, a blank line apart, and a binding that does not
\* resolve has no subsection and changes nothing in the order of the others.
C11_AccessOrderIsDeclaredOrder ==
    pc = "invoke" =>
       LET access == AccessPart(full_prompt)
           declared == protocol.accesses
       IN  \A m \in 1..Len(declared) :
              /\ Unresolvable(declared[m]) => SubsectionPlace(access, declared[m]) = 0
              /\ Resolvable(declared[m]) => SubsectionPlace(access, declared[m]) > 0
              /\ \A n \in (m + 1)..Len(declared) :
                    (Resolvable(declared[m]) /\ Resolvable(declared[n])) =>
                       SubsectionPlace(access, declared[m])
                          < SubsectionPlace(access, declared[n])

\* working memory, a missing reservoir, a present reservoir and working
\* memory again, declared in this order, in the prompt of a second step
C11_Witness ==
    /\ pc = "invoke" /\ i = 2
    /\ Len(protocol.accesses) = 4
    /\ steps[1].state = "Appended"
    /\ Unresolvable(protocol.accesses[2])
    /\ SubsectionPlace(AccessPart(full_prompt), protocol.accesses[1]) = 1
    /\ SubsectionPlace(AccessPart(full_prompt), protocol.accesses[3])
          < SubsectionPlace(AccessPart(full_prompt), protocol.accesses[4])

----------------------------------------------------------------------------
(* C12 *)

\* the prompts run_protocol can build for the step in hand from the state
\* the chain is in, one for every answer the editor can give when the
\* protocol requires commentary
SyncPrompts ==
    { FullPrompt(protocol, AccessContext(protocol, instance),
                 IF protocol.requires_commentary
                 THEN ObtainCommentary(edited) ELSE <<>>,
                 user_input, InstanceContent(instance)) :
         edited \in EditorAnswers }

\* C12: the asynchronous mode runs the algorithm of the synchronous mode: on
\* the same user input, protocol list, reservoir, commentary answers and
\* model responses every prompt run_chain_async sends is the prompt run_chain
\* sends, commentary block included for a protocol that requires commentary,
\* and the results and the working memory at the end are those of run_chain.
C12_AsyncRunsTheSyncAlgorithm ==
    mode = "async" =>
       /\ pc = "invoke" => full_prompt \in SyncPrompts
       /\ Done => /\ instance = MemoryBefore(NProtocols + 1)
                  /\ \A k \in 1..NProtocols :
                        HoldsItsEntry(k) =>
                           DictGet(results, protocols[k].name) = OwnResult(k)

----------------------------------------------------------------------------
(* C13 *)

\* the commentary block a prompt carries: the tokens between its
\* "Commentary for <name>:" line and the blank lines before "User Input:"
CommentaryBlock(p) ==
    LET iC == IndexOf(p, "Commentary for ")
        iU == IndexOf(p, "User Input:")
    IN  IF iC = 0 \/ iU < iC + 6 THEN <<>> ELSE SubSeq(p, iC + 4, iU - 3)

\* the assembly of step i is entered with the editor's answer in hand
CommentaryObtainedFirst ==
    (pc' = "assemble" /\ pc # "assemble" /\ protocol.requires_commentary) =>
       /\ pc = "commentary"
       /\ steps'[i].state = "PromptAssembly"
       /\ commentary_text' = steps'[i].commentary

\* the prompt of step i carries the commentary of step i, in its place
CommentaryInItsPrompt ==
    (pc = "invoke" /\ protocol.requires_commentary) =>
       LET p == full_prompt
           iA == IndexOf(p, "Access Contexts:")
           iC == IndexOf(p, "Commentary for ")
           iU == IndexOf(p, "User Input:")
       IN  /\ CommentaryBlock(p) = steps[i].commentary
           /\ steps[i].commentary # <<>> =>
                 /\ IndexOf(p, "Instructions:") < iA /\ iA < iC /\ iC < iU
                 /\ iC = iA + 2 + Len(AccessContext(protocol, instance)) + 3
                 /\ Count(p, "note") = Count(steps[i].commentary, "note")
           /\ steps[i].commentary = <<>> => Count(p, "note") = 0

\* no commentary reaches instance.md or the results
CommentaryNotPersisted ==
    /\ Count(instance, "note") = 0
    /\ Count(instance, "Commentary for ") = 0
    /\ \A n \in 1..Len(results) : Count(results[n].value, "note") = 0
    /\ \A k \in 1..NProtocols :
          steps[k].state = "Appended" =>
             steps[k].wm_after
                = steps[k].wm_before
                     \o Section(OutputTitle(protocols[k]), Strip(steps[k].response))

\* C13: for a protocol that requires commentary the commentary is obtained
\* from the editor before the prompt is built; it stands in the prompt after
\* the instructions and the access context and before the user input; it is
\* never persisted: the step writes to instance.md only the model's response,
\* and the commentary block of any other step carries only that step's own
\* commentary.
C13_CommentaryOnlyInItsPrompt ==
    /\ [][CommentaryObtainedFirst]_vars
    /\ [](CommentaryInItsPrompt /\ CommentaryNotPersisted)

----------------------------------------------------------------------------
(* C14 *)

Running == {"CommentaryCollection", "PromptAssembly", "ModelInvocation"}

\* C14: steps run strictly in list order and one at a time, in both modes: a
\* step is under way only as step i of the loop, with every earlier step in
\* a terminal state and every later step still pending; model calls are made
\* in list order, at most one per step and at most one outstanding; and when
\* the step before an invoking step was appended, its section is the end of
\* the working memory the prompt carries.
C14_StrictlySequential ==
    /\ \A k \in 1..NProtocols :
          /\ steps[k].state \in Running =>
                /\ k = i /\ InStep
                /\ \A j \in 1..NProtocols : steps[j].state \in Running => j = k
          /\ steps[k].state # "Pending" =>
                \A j \in 1..(k - 1) : steps[j].state \in Terminal
          /\ steps[k].state \in Terminal => (k < i \/ Done)
    /\ InStep => steps[i].state \in Running
    /\ \A m, n \in 1..Len(calls) : m < n => calls[m].step < calls[n].step
    /\ Cardinality({k \in 1..NProtocols : steps[k].state = "ModelInvocation"})
          = (IF pc = "invoke" THEN 1 ELSE 0)
    /\ (pc = "invoke" /\ i > 1 /\ steps[i - 1].state = "Appended") =>
          LET last == Section(OutputTitle(protocols[i - 1]), steps[i - 1].output)
                         \o <<NL>>
          IN  /\ calls[Len(calls)].step = i
              /\ StandsAt(calls[Len(calls)].chat_message,
                          Len(calls[Len(calls)].chat_message) - Len(last) + 1, last)

\* the third step of an asynchronous chain invokes the model after the first
\* step failed in its model call and the second was appended
C14_Witness ==
    /\ mode = "async" /\ pc = "invoke" /\ i = 3
    /\ steps[1].state = "Failed" /\ steps[1].failed_in = "invocation"
    /\ steps[2].state = "Appended"
    /\ Len(calls) = 3
    /\ Contains(full_prompt, <<protocols[2].name, " Output">>)

----------------------------------------------------------------------------
(* C16 *)

\* the section of instance.md that step k appended, as the file has it now
AppendedSection(k) ==
    SubSeq(instance, Len(steps[k].wm_before) + 1, Len(steps[k].wm_after))

\* C16: results and instance.md agree: for every protocol that reached
\* Appended the file holds, where the step appended it, a section titled
\* "<name> Output" whose body is exactly the value results holds under that
\* name, which is the stripped model response (as long as no later step of
\* the same name has written the entry).  For the list [A included, B
\* excluded] with A appended, results is {A: stripped response, B: ""} and
\* the file has the one section "A Output".
C16_ResultsAndMemoryAgree ==
    /\ \A k \in 1..NProtocols :
          (steps[k].state = "Appended" /\ HoldsItsEntry(k)) =>
             LET body == DictGet(results, Names[k])
             IN  /\ body = Strip(steps[k].response)
                 /\ AppendedSection(k)
                       = <<NL, NL, "---", NL, "### ", Names[k], " Output", NL, NL>>
                            \o body \o <<NL>>
    /\ ( /\ Done /\ NProtocols = 2
         /\ Names = <<"A", "B">>
         /\ protocols[1].include_in_chain /\ ~protocols[2].include_in_chain
         /\ steps[1].state = "Appended" ) =>
          /\ results = << [key |-> "A", value |-> Strip(steps[1].response)],
                          [key |-> "B", value |-> <<>>] >>
          /\ Count(instance, "### ") = 1
          /\ instance = ResetContent(user_input)
                           \o <<NL, NL, "---", NL, "### ", "A", " Output", NL, NL>>
                           \o DictGet(results, "A") \o <<NL>>

\* the chain [A included, B excluded] has returned with A appended from a
\* response that had whitespace around it
C16_Witness ==
    /\ Done /\ NProtocols = 2
    /\ Names = <<"A", "B">>
    /\ protocols[1].include_in_chain /\ ~protocols[2].include_in_chain
    /\ steps[1].state = "Appended" /\ steps[2].state = "Skipped"
    /\ steps[1].response # Strip(steps[1].response)
    /\ DictGet(results, "B") = <<>>

----------------------------------------------------------------------------
(* C18 *)

\* C18: the override of generate_prompt lasts for one model call: whenever
\* no step is under way (before the first step, between two steps, after the
\* chain has returned), whether the steps so far succeeded or their model
\* call raised, generate_prompt is the generator the agent was built with.
C18_GeneratorRestoredAfterEveryStep ==
    pc \in {"idle", "loop", "done"} => generate_prompt = OriginalGenerator

----------------------------------------------------------------------------
(* C17 *)

\* the steps of a protocol on its way to a terminal state; a protocol whose
\* commentary is not collected passes commentary collection without a stop
StepTransitions ==
    { <<"Pending", "Skipped">>,
      <<"Pending", "CommentaryCollection">>,
      <<"Pending", "PromptAssembly">>,
      <<"CommentaryCollection", "PromptAssembly">>,
      <<"PromptAssembly", "ModelInvocation">>,
      <<"ModelInvocation", "Appended">> }
    \cup { <<s, "Failed">> : s \in Running }

AlongStepTransitions ==
    \A k \in 1..NProtocols :
       steps'[k].state # steps[k].state =>
          /\ <<steps[k].state, steps'[k].state>> \in StepTransitions
          /\ (steps[k].state = "Pending" /\ steps'[k].state = "PromptAssembly") =>
                (mode = "async" \/ ~protocols[k].requires_commentary)

\* C17: a chain that has started runs to completion when every call of a
\* collaborator returns or raises: run_chain returns its results, and then
\* every protocol is in one terminal state (Skipped, Appended or Failed),
\* none is left pending or under way, each has its entry in the results, and
\* every protocol got there along Pending -> Skipped, Pending ->
\* CommentaryCollection -> PromptAssembly -> ModelInvocation -> Appended or a
\* transition from a state under way to Failed.
C17_ChainRunsToCompletion ==
    /\ (mode # "none") ~> Done
    /\ [](Done => /\ \A k \in 1..NProtocols : steps[k].state \in Terminal
                  /\ \A k \in 1..NProtocols : DictHas(results, Names[k]))
    /\ [][AlongStepTransitions]_vars

\* a chain has returned after its first step failed in the model call and
\* its last step was appended
C17_Witness ==
    /\ Done /\ NProtocols = MaxFairProtocols
    /\ steps[1].state = "Failed" /\ steps[1].failed_in = "invocation"
    /\ steps[NProtocols].state = "Appended"

----------------------------------------------------------------------------
(* C15 *)

\* C15: a chain run starts with a reset that replaces the whole of
\* instance.md by the header and the user input of this run; so during and
\* after a second run of the same agent the file is the reset content of the
\* second run followed by the sections of the second run alone: no section
\* and no user input of the first run is left in it.
C15_ResetReplacesTheBuffer ==
    /\ [][(pc = "idle" /\ pc' # "idle") =>
             instance' = <<"# Internal Reservoir Instance", NL, NL,
                           "[User Input]:", NL>> \o user_input' \o <<NL>>]_vars
    /\ [](runs >= 1 =>
            /\ pc \in {"loop", "commentary", "assemble", "invoke"} =>
                  instance = MemoryBefore(i)
            /\ pc \in {"done", "idle"} => instance = MemoryBefore(NProtocols + 1)
            /\ Count(instance, "---") = Cardinality({k \in 1..NProtocols :
                                                      steps[k].state = "Appended"})
            /\ \A u \in UserInputs \cup LaterInputs :
                  u # user_input => ~Contains(instance, u))

\* the second run, on another user input, has returned without a section,
\* and the first run had left at least one
C15_Witness ==
    /\ runs = 2 /\ Done
    /\ sections_before > 0
    /\ user_input = <<"again">>
    /\ NProtocols > 0
    /\ instance = <<"# Internal Reservoir Instance", NL, NL,
                    "[User Input]:", NL, "again", NL>>

----------------------------------------------------------------------------
(* C19 *)

\* C19: when the editor of obtain_user_input is closed without saving, the
\* program ends there, before any protocol runs: run_chain is never entered,
\* no model call is made, no protocol leaves Pending, nothing is recorded
\* and the instance file is as the construction of the agent left it.
C19_AbortedInputEndsTheProgram ==
    (input_edit # NotAsked /\ ~input_edit.saved) =>
       /\ pc = "exited"
       /\ runs = 0 /\ mode = "none"
       /\ calls = <<>>
       /\ results = <<>>
       /\ \A k \in 1..NProtocols : steps[k].state = "Pending"
       /\ instance = <<"# Internal Reservoir Instance", NL, NL>>

\* the editor was closed without saving in a program that had a protocol to
\* run
C19_Witness ==
    /\ pc = "exited"
    /\ input_edit = NoEdit
    /\ NProtocols > 0 /\ protocols[1].include_in_chain

----------------------------------------------------------------------------
(* C20 *)

\* C20: when instance.md holds a non-empty "[User Input]:" section as main
\* begins, obtain_user_input returns that stored input without opening the
\* editor, and the chain runs on it.
C20_StoredInputIsUsed ==
    StoredUserInput(start_file) # <<>> =>
       /\ pc # "editor"
       /\ input_edit = NotAsked
       /\ pc \in {"ready", "loop", "commentary", "assemble", "invoke", "done"} =>
             user_input = StoredUserInput(start_file)

----------------------------------------------------------------------------
(* C22 *)

\* text t is text s without whitespace at its ends
IsTrimOf(t, s) ==
    /\ t = <<>> \/ (t[1] \notin Whitespace /\ t[Len(t)] \notin Whitespace)
    /\ \E k \in 0..Len(s) :
          /\ k + Len(t) <= Len(s)
          /\ \A j \in 1..Len(s) :
                IF j > k /\ j <= k + Len(t)
                THEN s[j] = t[j - k] ELSE s[j] \in Whitespace

\* C22: load_markdown returns the text of the file without its leading and
\* trailing whitespace, raises "not found" when the path names no file, and
\* is idempotent: it leaves every file as it is, and two loads of a path whose
\* file has the same text give the same outcome.
C22_LoaderTrimsAndIsIdempotent ==
    \A n \in 1..Len(loads) :
       LET l == loads[n]
           text == l.before[l.path]
       IN  /\ text = <<"<no such file>">> =>
                 /\ l.raised
                 /\ l.value = <<"Markdown file not found: ">> \o l.path.name
           /\ text # <<"<no such file>">> =>
                 /\ ~l.raised
                 /\ IsTrimOf(l.value, text)
           /\ l.after = l.before
           /\ \A m \in 1..Len(loads) :
                 (loads[m].path = l.path /\ loads[m].before[l.path] = text) =>
                    (loads[m].raised = l.raised /\ loads[m].value = l.value)

\* one file is loaded twice, unchanged in between, and its text has
\* whitespace at both ends
C22_Witness ==
    /\ Len(loads) = 2
    /\ loads[1].path = loads[2].path
    /\ loads[1].before = loads[2].before
    /\ ~loads[1].raised
    /\ loads[1].value = <<"guidance">>
    /\ loads[1].before[loads[1].path] = <<NL, "guidance", " ", NL>>


----------------------------------------------------------------------------
\* a Protocol(...) call names a reservoir file that does not exist
NamesMissingReservoir(args) ==
    \E m \in 1..Len(args.accesses) : Unresolvable(args.accesses[m])

\* the constructions that returned an object
Built == SelectSeq(construction, LAMBDA c : ~c.raised)

\* C21: a Protocol(...) call whose prompt file does not exist raises
\* FileNotFoundError: no object is made, it is the last construction and no
\* chain ever runs.  Every other call returns an object with the stripped
\* prompt and the accesses as given, also when an access names a reservoir file
\* that does not exist; that file is missed only when a step of the chain
\* assembles its prompt, which logs a warning, leaves the subsection out
\* and calls the model all the same.
C21_MissingPromptFailsConstruction ==
    /\ \A n \in 1..Len(construction) :
          LET c == construction[n]
          IN  /\ c.raised <=> ~PathExistsIn(files, c.args.prompt_file)
              /\ c.raised =>
                    /\ n = Len(construction)
                    /\ pc = "raised"
                    /\ runs = 0
                    /\ c.error = <<"Markdown file not found: ">>
                                    \o c.args.prompt_file.name
    /\ Len(protocols) = Len(Built)
    /\ \A n \in 1..Len(Built) :
          /\ protocols[n].name = Built[n].args.name
          /\ protocols[n].accesses = Built[n].args.accesses
          /\ protocols[n].prompt = Strip(files[Built[n].args.prompt_file])
    /\ (construction # <<>> /\ pc = "invoke") =>
          /\ calls # <<>>
          /\ \A m \in 1..Len(protocol.accesses) :
                Unresolvable(protocol.accesses[m]) =>
                   /\ \E w \in 1..Len(warnings) :
                         /\ warnings[w].step = i
                         /\ warnings[w].label = protocol.accesses[m].label
                   /\ SubsectionPlace(AccessPart(full_prompt),
                                      protocol.accesses[m]) = 0

\* a protocol whose reservoir file is missing was constructed, and the
\* construction after it raised for its missing prompt file
C21_Witness ==
    /\ pc = "raised"
    /\ Len(construction) = 2
    /\ ~construction[1].raised
    /\ NamesMissingReservoir(construction[1].args)
    /\ construction[2].raised
    /\ Len(protocols) = 1


----------------------------------------------------------------------------
\* the section step k of task t appended
TaskSection(t, k) ==
    Section(OutputTitle(protocols[k]), tasks[t].steps[k].output)

\* write w to instance.md was followed by the reset of another chain, or by
\* the append of another chain that had read the file before write w
DiscardedAfter(t, w) ==
    \E later \in (w + 1)..Len(writes) :
       /\ writes[later].task # t
       /\ \/ writes[later].kind = "reset"
          \/ writes[later].read_at < w

AllTasksDone == \A t \in Tasks : tasks[t].pc = "done"

----------------------------------------------------------------------------
\* what the collaborators gave step k: the commentary, the answer of the
\* model, the exception and who raised it
Answers(step) ==
    [commentary |-> step.commentary, response |-> step.response,
     error |-> step.error, failed_in |-> step.failed_in]

\* the second run has returned and every collaborator answered each of its
\* steps as it answered the step of the first run
SameAnswersTwice ==
    /\ runs = 2
    /\ pc = "done"
    /\ Len(previous.steps) = Len(steps)
    /\ \A k \in 1..Len(steps) : Answers(steps[k]) = Answers(previous.steps[k])

\* C24: nothing the chain runner does changes a protocol: name, prompt,
\* accesses, include_in_chain and requires_commentary of every protocol of the
\* list stay what the constructor set.  So when the same list is run a second
\* time and the collaborators answer as they did the first time, the second
\* run returns the results of the first.
C24_ProtocolsImmutableAndReusable ==
    /\ [][protocols' = protocols]_vars
    /\ [](SameAnswersTwice => results = previous.results)

\* a protocol with commentary was run twice, the editor and the model gave
\* the second run what they gave the first, and the step succeeded again with
\* the same output
C24_Witness ==
    /\ SameAnswersTwice
    /\ Len(protocols) = 1
    /\ steps[1].state = "Appended"
    /\ steps[1].commentary # <<>>
    /\ previous.steps[1].state = "Appended"
    /\ results = previous.results
    /\ Len(results) = 1


----------------------------------------------------------------------------
\* step k got as far as its model call
ReachedInvocation(k) ==
    \/ steps[k].state \in {"ModelInvocation", "Appended"}
    \/ steps[k].state = "Failed" /\ steps[k].failed_in = "invocation"

\* step k is included and did not fail before its model call
NotFailedBefore(k) ==
    /\ protocols[k].include_in_chain
    /\ ~(steps[k].state = "Failed" /\ steps[k].failed_in \in {"commentary", "assembly"})

\* C25: the model is invoked for the steps in list order and at most once per
\* step: never for a protocol that is left out, never for a step that failed
\* while its commentary was collected or its prompt was built, once for every
\* other step that has got so far.  When the chain has returned, the number of
\* invocations is the number of included steps that did not fail before their
\* invocation.
C25_OneModelCallPerIncludedStep ==
    /\ \A n \in 1..Len(calls) :
          /\ calls[n].step \in 1..NProtocols
          /\ protocols[calls[n].step].include_in_chain
          /\ ReachedInvocation(calls[n].step)
          /\ \A m \in (n + 1)..Len(calls) : calls[n].step < calls[m].step
    /\ \A k \in 1..Len(steps) :
          ReachedInvocation(k) => \E n \in 1..Len(calls) : calls[n].step = k
    /\ Done => Len(calls) = Cardinality({ k \in 1..NProtocols : NotFailedBefore(k) })

\* a chain of three has returned: the first step succeeded, the second was
\* left out, the third failed when its commentary was collected; the model
\* was invoked once
C25_Witness ==
    /\ Done
    /\ NProtocols = 3
    /\ steps[1].state = "Appended"
    /\ steps[2].state = "Skipped"
    /\ steps[3].state = "Failed" /\ steps[3].failed_in = "commentary"
    /\ Len(calls) = 1
    /\ calls[1].step = 1


----------------------------------------------------------------------------
\* C26: no chain starts without user input: whenever main has called
\* run_chain, the user input it passed is not empty, also when the editor was
\* saved with nothing but '#' comment lines.
C26_NoChainWithoutUserInput ==
    runs > 0 => user_input # <<>>


----------------------------------------------------------------------------
\* the steps of the list that carry the name
Named(name) == { k \in 1..NProtocols : Names[k] = name }

\* the last step of the list that carries the name
LastNamed(name) == CHOOSE k \in Named(name) : \A j \in Named(name) : j <= k

\* how often text t stands in s
Occurrences(s, t) ==
    Cardinality({ at \in 1..Len(s) : s[at] = t[1] /\ StandsAt(s, at, t) })

\* the rule and the title of the section of a protocol of that name
SectionHead(name) == <<"---", NL, "### ", name, " Output", NL, NL>>

\* C27: when protocols of the list share a name, the chain that has returned
\* has executed each of them all the same: one model call for every such step
\* that reached its invocation and one section "<name> Output" in working
\* memory for every such step that succeeded.  But results has one entry per
\* name, fewer than the list has protocols, and the entry of a shared name is
\* the outcome of the last step of that name.
C27_SharedNameKeepsLaterOutcome ==
    (Done /\ ~UniqueNames) =>
       /\ Len(results) = Cardinality({ Names[k] : k \in 1..NProtocols })
       /\ Len(results) < NProtocols
       /\ \A name \in { Names[k] : k \in 1..NProtocols } :
             /\ Cardinality({ n \in 1..Len(results) : results[n].key = name }) = 1
             /\ DictGet(results, name) = OwnResult(LastNamed(name))
             /\ Cardinality({ n \in 1..Len(calls) : Names[calls[n].step] = name })
                   = Cardinality({ j \in Named(name) : ReachedInvocation(j) })
             /\ Occurrences(instance, SectionHead(name))
                   = Cardinality({ j \in Named(name) : steps[j].state = "Appended" })

\* two protocols of one name have both succeeded with different answers:
\* two model calls, two sections, one entry that holds the second answer
C27_Witness ==
    /\ Done
    /\ NProtocols = 2
    /\ Names[1] = Names[2]
    /\ steps[1].state = "Appended" /\ steps[2].state = "Appended"
    /\ OwnResult(1) # OwnResult(2)
    /\ Len(calls) = 2
    /\ Occurrences(instance, SectionHead(Names[1])) = 2
    /\ results = <<[key |-> Names[1], value |-> OwnResult(2)]>>


----------------------------------------------------------------------------
\* the entry has the form "Error: <message>"
IsErrorMarker(entry) == entry # <<>> /\ entry[1] = "Error: "

\* the entry results holds under the name of step k
Entry(k) == DictGet(results, Names[k])

\* the original statement of C28: the outcome of a step can be told from its
\* entry alone: the entry is "" only if the step was skipped and has the form
\* "Error: <message>" only if the step failed.
C28_OutcomesDistinguishable ==
    Done =>
       \A k \in 1..NProtocols :
          HoldsItsEntry(k) =>
             /\ Entry(k) = <<>> => steps[k].state = "Skipped"
             /\ IsErrorMarker(Entry(k)) => steps[k].state = "Failed"

\* C28: in the results of a chain that has returned, the entry of a skipped
\* step is "", the entry of a failed step is "Error: " and the message of its
\* exception, the entry of a succeeded step is the trimmed answer of the
\* model, whatever that answer is.  So an entry "" is that of a skipped step or
\* of a succeeded step whose answer was empty after trimming, and an entry
\* "Error: <message>" is that of a failed step or of a succeeded step whose
\* answer began with "Error: "; every other entry is that of a succeeded step.
C28_OutcomesInBand ==
    Done =>
       \A k \in 1..NProtocols :
          HoldsItsEntry(k) =>
             /\ steps[k].state = "Skipped" => Entry(k) = <<>>
             /\ steps[k].state = "Failed" => Entry(k) = <<"Error: ">> \o steps[k].error
             /\ steps[k].state = "Appended" => Entry(k) = Strip(steps[k].response)
             /\ Entry(k) = <<>> =>
                   \/ steps[k].state = "Skipped"
                   \/ steps[k].state = "Appended" /\ Strip(steps[k].response) = <<>>
             /\ IsErrorMarker(Entry(k)) =>
                   \/ steps[k].state = "Failed"
                   \/ steps[k].state = "Appended"
                      /\ IsErrorMarker(Strip(steps[k].response))
             /\ (Entry(k) # <<>> /\ ~IsErrorMarker(Entry(k))) =>
                   steps[k].state = "Appended"

\* a step succeeded with an answer of whitespace and a step succeeded with an
\* answer that begins with "Error: ": their entries are those of a skipped and
\* of a failed step
C28_Witness ==
    /\ Done
    /\ NProtocols = 2
    /\ Names[1] # Names[2]
    /\ steps[1].state = "Appended" /\ Entry(1) = <<>>
    /\ steps[2].state = "Appended" /\ Entry(2) = ErrorMarker(<<"api error">>)


----------------------------------------------------------------------------
\* step k asked for commentary and the editor gave none: it was closed
\* without saving, or what was saved had only '#' lines and blank lines
NoCommentaryGiven(k) ==
    /\ mode = "sync"
    /\ protocols[k].include_in_chain
    /\ protocols[k].requires_commentary
    /\ steps[k].state \in {"PromptAssembly", "ModelInvocation", "Appended", "Failed"}
    /\ steps[k].failed_in # "commentary"
    /\ steps[k].commentary = <<>>

\* the prompt of run_protocol for a protocol that requires no commentary
PlainPrompt(p, memory) ==
    <<"Protocol: ", p.name, NL, "Instructions:", NL>> \o p.prompt
    \o <<NL, NL, "Access Contexts:", NL>> \o AccessContext(p, memory)
    \o <<NL, NL, NL, "User Input:", NL>> \o user_input
    \o <<NL, NL, "Current Instance Context:", NL>> \o memory \o <<NL>>

\* C29: a step that asks for commentary and gets none does not fail for it.
\* Its prompt is the prompt of a step without commentary, with no commentary
\* block; it fails only when the read of instance.md or the model call raises;
\* the model is invoked once its prompt is built, and once the model has
\* answered the step is Appended with its section in working memory.
C29_NoCommentaryIsNoFailure ==
    \A k \in 1..Len(steps) :
       NoCommentaryGiven(k) =>
          /\ steps[k].state = "Failed" =>
                \/ steps[k].failed_in = "assembly" /\ steps[k].error \in ReadErrors
                \/ steps[k].failed_in = "invocation" /\ steps[k].error \in ModelErrors
          /\ ReachedInvocation(k) => \E n \in 1..Len(calls) : calls[n].step = k
          /\ (pc = "invoke" /\ k = i) =>
                /\ calls[Len(calls)].step = k
                /\ calls[Len(calls)].chat_message = PlainPrompt(protocols[k], instance)
                /\ Count(calls[Len(calls)].chat_message, "Commentary for ") = 0
          /\ steps[k].state = "Appended" =>
                steps[k].wm_after =
                   steps[k].wm_before
                      \o Section(OutputTitle(protocols[k]), Strip(steps[k].response))
          /\ (k < i /\ steps[k].response # <<>>) => steps[k].state = "Appended"

\* the chain has returned; a step asked for commentary, got none, called the
\* model and was appended
C29_Witness ==
    /\ Done
    /\ \E k \in 1..NProtocols :
          /\ NoCommentaryGiven(k)
          /\ steps[k].state = "Appended"
          /\ DictGet(results, Names[k]) = Strip(steps[k].response)


----------------------------------------------------------------------------
\* the text has a line that begins with "---"
HasRuleLine(u) ==
    /\ u # <<>>
    /\ \/ u[1] = "---"
       \/ \E k \in 1..(Len(u) - 1) : u[k] = NL /\ u[k + 1] = "---"

\* call n of obtain_user_input read the file back as it was kept: the stored
\* input is returned trimmed, the editor was not opened, the file is as it was
RoundTrip(n) ==
    /\ obtained[n].returned = Strip(obtained[n].u)
    /\ obtained[n].edit = NotAsked
    /\ obtained[n].after = obtained[n].file

\* the original statement of C31: the user input kept in instance.md by the
\* reset of run_chain and any appends, or by obtain_user_input, is returned
\* trimmed by obtain_user_input, without the editor and with the file left as
\* it is, whenever it is not empty and has no line that begins with "---".
C31_UserInputRoundTrips ==
    \A n \in 1..Len(obtained) :
       (obtained[n].held /\ obtained[n].u # <<>> /\ ~HasRuleLine(obtained[n].u))
          => RoundTrip(n)

\* C31: the user input kept in instance.md by the reset of run_chain and any
\* appends, or by obtain_user_input, is returned trimmed by obtain_user_input,
\* without the editor and with the file left as it is, whenever it is not
\* empty after trimming and has no line that begins with "---".
C31_TrimmedUserInputRoundTrips ==
    \A n \in 1..Len(obtained) :
       (obtained[n].held /\ Strip(obtained[n].u) # <<>> /\ ~HasRuleLine(obtained[n].u))
          => RoundTrip(n)

\* a chain was reset with " hello\n" and appended a section; the file was read
\* back and gave "hello"
C31_Witness ==
    \E n \in 1..Len(obtained) :
       /\ obtained[n].held
       /\ obtained[n].u = <<" ", "hello", NL>>
       /\ Count(obtained[n].file, "---") = 1
       /\ obtained[n].returned = <<"hello">>
       /\ RoundTrip(n)

----------------------------------------------------------------------------
(* C32 *)

\* the node a call returned can be retrieved by its id from the memory
Retrievable(ns, node) == Retrieve(ns, node.id) = node

\* C32: execute_protocol stores a node if and only if it returns that node:
\* for a name that is not registered, or a result that fails validation, it
\* returns None and leaves the memory unchanged; for a registered name whose
\* result has content it returns the node, the node is retrievable by its id
\* afterwards, and the nodes stored earlier stay retrievable
C32_StoresWhatItReturns ==
    \A n \in 1..Len(executed) :
        LET e == executed[n]
            content == <<"Processed ">> \o
                       (IF DictHas(e.input_data, "content")
                        THEN DictGet(e.input_data, "content") ELSE <<>>)
        IN  /\ (e.after # e.before) <=> (e.returned # NoNode)
            /\ (~e.registered \/ content = <<>>) =>
                   e.outcome = "None" /\ e.after = e.before
            /\ (e.registered /\ content # <<>>) =>
                   /\ e.outcome = "node"
                   /\ e.returned.content = content
                   /\ Retrievable(e.after, e.returned)
                   /\ \A k \in 1..Len(e.before) :
                          Retrievable(e.after, e.before[k].value)

----------------------------------------------------------------------------
(* C33 *)

\* the source of the binding is "instance.md" once trimmed and lower-cased
NamesSentinel(b) == Lower(Strip(b.filename)) = <<"instance.md">>

\* C33: whatever file the agent was constructed with, in the access context
\* of every prompt a binding whose source is "instance.md" once trimmed and
\* lower-cased has the Working Memory subsection with the agent's current
\* working memory, and the file of that name in the reservoir appears
\* nowhere; every other binding, the agent's own file name among them, has
\* what load_markdown finds under that very name in the reservoir: the
\* stripped text, or no subsection and a warning when there is no such file
C33_SentinelIsLiteral ==
    pc = "invoke" =>
       LET access == AccessPart(full_prompt)
           declared == protocol.accesses
       IN  /\ ~Contains(access, Strip(FileText(PathJoin(RESERVOIR_DIR,
                                                        <<"instance.md">>))))
           /\ \A m \in 1..Len(declared) :
                 LET b == declared[m]
                     at == SubsectionPlace(access, b)
                     path == PathJoin(RESERVOIR_DIR, b.filename)
                 IN  IF NamesSentinel(b)
                     THEN StandsAt(access, at,
                                   <<"### ", b.label, " (Working Memory):", NL>>
                                      \o instance)
                     ELSE IF PathExists(path)
                     THEN StandsAt(access, at,
                                   <<"### ", b.label, ":", NL>>
                                      \o Strip(FileText(path)))
                     ELSE /\ at = 0
                          /\ \E n \in 1..Len(warnings) :
                                /\ warnings[n].step = i
                                /\ warnings[n].filename = b.filename

\* an agent constructed with memory.md sends, in a second step, a prompt in
\* which "Instance.MD" has the working memory with the first section and
\* "memory.md" has the text of the reservoir file of that name
C33_Witness ==
    /\ pc = "invoke" /\ i = 2
    /\ instance_file = <<"memory.md">>
    /\ steps[1].state = "Appended"
    /\ Len(protocol.accesses) = 3
    /\ protocol.accesses[2].filename = instance_file
    /\ NamesSentinel(protocol.accesses[1])
    /\ Contains(AccessPart(full_prompt),
                <<"### ", "M", ":", NL, "reservoir memory">>)
    /\ Contains(AccessPart(full_prompt),
                <<"### ", "W", " (Working Memory):", NL>> \o instance)

----------------------------------------------------------------------------
(* C34 *)

\* the two assemblies of the log that were made for one protocol, one by
\* each of the two functions
SameProtocolBothWays(m, n) ==
    /\ assembled[m].by = "get_all_access_context"
    /\ assembled[n].by = "run_protocol"
    /\ assembled[m].protocol = assembled[n].protocol

HasSentinel(p) ==
    \E k \in 1..Len(p.accesses) : NamesSentinel(p.accesses[k])

\* C34: get_all_access_context and the access loop of run_protocol produce
\* the same block for every protocol, the protocols with a working-memory
\* binding among them, whichever reservoir files are present
C34_AccessContextsAgree ==
    \A m, n \in 1..Len(assembled) :
        SameProtocolBothWays(m, n) => assembled[m].block = assembled[n].block

\* C34 (amended): get_all_access_context and the access loop of run_protocol
\* produce the same block for every protocol none of whose bindings names
\* the working-memory sentinel, whichever reservoir files are present
C34_ReservoirContextsAgree ==
    \A m, n \in 1..Len(assembled) :
        (SameProtocolBothWays(m, n) /\ ~HasSentinel(assembled[m].protocol)) =>
            assembled[m].block = assembled[n].block

\* both functions assembled the block of a protocol whose first reservoir
\* is missing and whose second is present, and the block is that one
\* subsection
C34_Witness ==
    /\ Len(assembled) = 2
    /\ SameProtocolBothWays(1, 2)
    /\ Len(assembled[1].protocol.accesses) = 2
    /\ ~HasSentinel(assembled[1].protocol)
    /\ ~PathExistsIn(files, PathJoin(RESERVOIR_DIR, <<"missing.md">>))
    /\ assembled[2].block = <<"### ", "R", ":", NL, "text of ", "file.md">>
    /\ instance # Header

====
